---- MODULE Spec2Model ----
(***************************************************************************)
(* NeuroLoop module library: trigger generator (nloop-trigger), trigger    *)
(* bank, and the integer shift primitives (nloop-integers).                *)
(*                                                                         *)
(* indextype_t values are modelled as mathematical integers; the inputs    *)
(* are drawn from small non-negative sets so no value leaves the range of  *)
(* an unpromoted C++ integer type.                                         *)
(***************************************************************************)
EXTENDS Integers, Sequences, FiniteSets, TLC

(***************************************************************************)
(* Bounds of the model.                                                    *)
(***************************************************************************)
MaxSig == 3
MaxTarget == 3
MaxPeriod == 4
MaxDur == 2
MaxCool == 2
MaxCount == 2

(***************************************************************************)
(* Program constants.                                                      *)
(***************************************************************************)
DefaultDuration == 1
DefaultCooldown == 50

NLOOP_TSTATE_IDLE == "Idle"
NLOOP_TSTATE_WAITRISE == "WaitRise"
NLOOP_TSTATE_WAITFALL == "WaitFall"
NLOOP_TSTATE_WAITCOOL == "WaitCool"

trigstate_t ==
  { NLOOP_TSTATE_IDLE, NLOOP_TSTATE_WAITRISE,
    NLOOP_TSTATE_WAITFALL, NLOOP_TSTATE_WAITCOOL }

SigVals == 0..MaxSig
TargetVals == {1, MaxTarget}
PeriodVals == {0, MaxPeriod}

Min(a, b) == IF a < b THEN a ELSE b

(***************************************************************************)
(* nloop_Trigger_t: one trigger generator, as a record of its members.     *)
(***************************************************************************)

\* nloop_Trigger_t::ForceIdle - transient state only.
TrigForceIdle(t) ==
  [t EXCEPT !.state = NLOOP_TSTATE_IDLE,
            !.timeout_left = 0,
            !.saved_target = 0,
            !.prev_signal = 0,
            !.unwrap_offset = 0]

\* nloop_Trigger_t::ResetState (and the constructor, which only calls it).
TrigResetState ==
  TrigForceIdle(
    [trig_duration |-> DefaultDuration,
     trig_cooldown_time |-> DefaultCooldown,
     reraise_ok |-> FALSE,
     state |-> NLOOP_TSTATE_IDLE,
     timeout_left |-> 0, saved_target |-> 0,
     prev_signal |-> 0, unwrap_offset |-> 0])

\* nloop_Trigger_t::SetPulseDuration
TrigSetPulseDuration(t, new_duration_samps) ==
  [t EXCEPT !.trig_duration =
     IF new_duration_samps < 1 THEN 1 ELSE new_duration_samps]

\* nloop_Trigger_t::SetPulseCooldown
TrigSetPulseCooldown(t, new_cooldown_samps) ==
  [t EXCEPT !.trig_cooldown_time =
     IF new_cooldown_samps < 1 THEN 1 ELSE new_cooldown_samps]

\* nloop_Trigger_t::SetReRaise
TrigSetReRaise(t, want_reraise) ==
  [t EXCEPT !.reraise_ok = want_reraise]

\* The variant that compares strictly, so a signal that lands exactly on
\* the target does not start the pulse.
WaitRiseCase_StrictCompare(t, thisval, thisperiod) ==
  LET v1 == thisval + t.unwrap_offset
      wrap == (v1 + (thisperiod \div 2)) < t.prev_signal
      off2 == IF wrap THEN t.unwrap_offset + thisperiod ELSE t.unwrap_offset
      v2 == IF wrap THEN v1 + thisperiod ELSE v1
      t1 == [t EXCEPT !.unwrap_offset = off2, !.prev_signal = v2]
  IN  IF v2 > t.saved_target
        THEN [t1 EXCEPT !.timeout_left = t.trig_duration,
                        !.state = NLOOP_TSTATE_WAITFALL]
        ELSE t1

\* The variant whose unwrap threshold is the whole period.
WaitRiseCase_FullPeriodThreshold(t, thisval, thisperiod) ==
  LET v1 == thisval + t.unwrap_offset
      wrap == (v1 + thisperiod) < t.prev_signal
      off2 == IF wrap THEN t.unwrap_offset + thisperiod ELSE t.unwrap_offset
      v2 == IF wrap THEN v1 + thisperiod ELSE v1
      t1 == [t EXCEPT !.unwrap_offset = off2, !.prev_signal = v2]
  IN  IF v2 >= t.saved_target
        THEN [t1 EXCEPT !.timeout_left = t.trig_duration,
                        !.state = NLOOP_TSTATE_WAITFALL]
        ELSE t1

\* ProcessSample, case NLOOP_TSTATE_WAITRISE.
\* thisperiod is non-negative, so (thisperiod >> 1) is thisperiod \div 2.
WaitRiseCase(t, thisval, thisperiod) ==
  LET v1 == thisval + t.unwrap_offset
      wrap == (v1 + (thisperiod \div 2)) < t.prev_signal
      off2 == IF wrap THEN t.unwrap_offset + thisperiod ELSE t.unwrap_offset
      v2 == IF wrap THEN v1 + thisperiod ELSE v1
      t1 == [t EXCEPT !.unwrap_offset = off2, !.prev_signal = v2]
  IN  IF v2 >= t.saved_target
        THEN [t1 EXCEPT !.timeout_left = t.trig_duration,
                        !.state = NLOOP_TSTATE_WAITFALL]
        ELSE t1

\* The variant that counts the tick ending the pulse as the first tick of
\* the cooldown.
WaitFallCase_CooldownLessOne(t) ==
  LET left == IF t.timeout_left > 0 THEN t.timeout_left - 1
                                    ELSE t.timeout_left
  IN  IF left <= 0
        THEN [t EXCEPT !.timeout_left = t.trig_cooldown_time - 1,
                       !.state = NLOOP_TSTATE_WAITCOOL]
        ELSE [t EXCEPT !.timeout_left = left]

\* The variant that decrements after the test, so a pulse lasts one tick
\* too long.
WaitFallCase_LateDecrement(t) ==
  IF t.timeout_left <= 0
    THEN [t EXCEPT !.timeout_left = t.trig_cooldown_time,
                   !.state = NLOOP_TSTATE_WAITCOOL]
    ELSE [t EXCEPT !.timeout_left = t.timeout_left - 1]

\* ProcessSample, case NLOOP_TSTATE_WAITFALL.
WaitFallCase(t) ==
  LET left == IF t.timeout_left > 0 THEN t.timeout_left - 1
                                    ELSE t.timeout_left
  IN  IF left <= 0
        THEN [t EXCEPT !.timeout_left = t.trig_cooldown_time,
                       !.state = NLOOP_TSTATE_WAITCOOL]
        ELSE [t EXCEPT !.timeout_left = left]

\* The variant that returns to idle as soon as the cooldown has run out,
\* whatever the detection flag.
WaitCoolCase_IgnoreDetect(t, thisdetectflag) ==
  LET left == IF t.timeout_left > 0 THEN t.timeout_left - 1
                                    ELSE t.timeout_left
      t1 == [t EXCEPT !.timeout_left = left]
  IN  IF left <= 0
        THEN [t1 EXCEPT !.state = NLOOP_TSTATE_IDLE]
        ELSE t1

\* ProcessSample, case NLOOP_TSTATE_WAITCOOL.
WaitCoolCase(t, thisdetectflag) ==
  LET left == IF t.timeout_left > 0 THEN t.timeout_left - 1
                                    ELSE t.timeout_left
      t1 == [t EXCEPT !.timeout_left = left]
  IN  IF left <= 0 /\ ((~thisdetectflag) \/ t.reraise_ok)
        THEN [t1 EXCEPT !.state = NLOOP_TSTATE_IDLE]
        ELSE t1

\* The variant that queues a pulse without charging the quota.
IdleCase_NoDecrement(t, thisval, thistarget, thisperiod, thisdetectflag, count) ==
  IF thisdetectflag /\ count > 0
    THEN LET s1 == IF thisval >= thistarget THEN thistarget + thisperiod
                                            ELSE thistarget
             s2 == IF thisval >= s1 THEN s1 + thisperiod ELSE s1
         IN  [trig |-> [t EXCEPT !.state = NLOOP_TSTATE_WAITRISE,
                                 !.saved_target = s2,
                                 !.unwrap_offset = 0,
                                 !.prev_signal = thisval],
              count |-> count]
    ELSE [trig |-> t, count |-> count]

\* ProcessSample, default case (NLOOP_TSTATE_IDLE).  The quota is passed by
\* reference, so the case yields the trigger and the quota.
IdleCase(t, thisval, thistarget, thisperiod, thisdetectflag, count) ==
  IF thisdetectflag /\ count > 0
    THEN LET s1 == IF thisval >= thistarget THEN thistarget + thisperiod
                                            ELSE thistarget
             s2 == IF thisval >= s1 THEN s1 + thisperiod ELSE s1
         IN  [trig |-> [t EXCEPT !.state = NLOOP_TSTATE_WAITRISE,
                                 !.saved_target = s2,
                                 !.unwrap_offset = 0,
                                 !.prev_signal = thisval],
              count |-> count - 1]
    ELSE [trig |-> t, count |-> count]

\* The variant in which a queued pulse is dropped when the detection flag is
\* false or no quota is left.
TrigProcessSample_WaitRiseCancels(t, thisval, thistarget, thisperiod, thisdetectflag, count) ==
  LET r == CASE t.state = NLOOP_TSTATE_WAITRISE ->
                  [trig |-> IF thisdetectflag /\ count > 0
                              THEN WaitRiseCase(t, thisval, thisperiod)
                              ELSE [t EXCEPT !.state = NLOOP_TSTATE_IDLE],
                   count |-> count]
             [] t.state = NLOOP_TSTATE_WAITFALL ->
                  [trig |-> WaitFallCase(t), count |-> count]
             [] t.state = NLOOP_TSTATE_WAITCOOL ->
                  [trig |-> WaitCoolCase(t, thisdetectflag), count |-> count]
             [] OTHER ->
                  IdleCase(t, thisval, thistarget, thisperiod,
                           thisdetectflag, count)
  IN  [trig |-> r.trig, count |-> r.count,
       out |-> (r.trig.state = NLOOP_TSTATE_WAITFALL)]

\* nloop_Trigger_t::ProcessSample: the new trigger, the new quota and the
\* returned flag.
TrigProcessSample(t, thisval, thistarget, thisperiod, thisdetectflag, count) ==
  LET r == CASE t.state = NLOOP_TSTATE_WAITRISE ->
                  [trig |-> WaitRiseCase(t, thisval, thisperiod),
                   count |-> count]
             [] t.state = NLOOP_TSTATE_WAITFALL ->
                  [trig |-> WaitFallCase(t), count |-> count]
             [] t.state = NLOOP_TSTATE_WAITCOOL ->
                  [trig |-> WaitCoolCase(t, thisdetectflag), count |-> count]
             [] OTHER ->
                  IdleCase(t, thisval, thistarget, thisperiod,
                           thisdetectflag, count)
  IN  [trig |-> r.trig, count |-> r.count,
       out |-> (r.trig.state = NLOOP_TSTATE_WAITFALL)]

(***************************************************************************)
(* nloop_TriggerBank_t<indextype_t, bankcount, chancount>.                 *)
(***************************************************************************)
bankcount == 1
chancount == 2

Cells == (0..(bankcount - 1)) \X (0..(chancount - 1))

\* The cells in the order of the scan loops (bidx outer, cidx inner).
CellOrder == [i \in 1..(bankcount * chancount) |->
                <<(i - 1) \div chancount, (i - 1) % chancount>>]

\* A cell of the active subrectangle.
IsActive(cell, banks_act, chans_act) ==
  cell[1] < banks_act /\ cell[2] < chans_act

\* SetActiveBanks / SetActiveChans clamp their argument.
ClampActive(new_count, limit) ==
  IF new_count < 0 THEN 0
  ELSE IF new_count > limit THEN limit
  ELSE new_count

\* The variant that forces the quota to 0 in the call that decrements the
\* window to 0.
WindowStep_ForceOnReachingZero(window, count) ==
  LET w == IF window > 0 THEN window - 1 ELSE window
  IN  [window |-> w, count |-> IF w = 0 THEN 0 ELSE count]

\* ProcessSamples, the window countdown: the quota is forced to 0 by a call
\* that finds window_time_left at 0 already.
WindowStep(window, count) ==
  IF window > 0
    THEN [window |-> window - 1, count |-> count]
    ELSE [window |-> window, count |-> 0]

\* The variant that steps the trigger of a disabled cell and only masks its
\* output.
ScanCell_DisabledStillSteps(st, cell, en, banks_act, chans_act, inp) ==
  IF ~IsActive(cell, banks_act, chans_act) THEN st
  ELSE LET r == TrigProcessSample(st.triggers[cell], inp[cell].sig,
                                  inp[cell].target, inp[cell].period,
                                  inp[cell].detect, st.count)
           queued == IF st.triggers[cell].state = NLOOP_TSTATE_IDLE
                        /\ r.trig.state = NLOOP_TSTATE_WAITRISE
                     THEN 1 ELSE 0
       IN  [triggers |-> [st.triggers EXCEPT ![cell] = r.trig],
            count |-> r.count,
            trigsout |-> [st.trigsout EXCEPT ![cell] = en[cell] /\ r.out],
            queued |-> st.queued + queued]

\* The body of the scan loops for one cell: st carries the triggers, the
\* shared quota, the output slice and the number of pulses queued so far in
\* this call.
ScanCell(st, cell, en, banks_act, chans_act, inp) ==
  IF ~IsActive(cell, banks_act, chans_act) THEN st
  ELSE IF ~en[cell] THEN [st EXCEPT !.trigsout[cell] = FALSE]
  ELSE LET r == TrigProcessSample(st.triggers[cell], inp[cell].sig,
                                  inp[cell].target, inp[cell].period,
                                  inp[cell].detect, st.count)
           queued == IF st.triggers[cell].state = NLOOP_TSTATE_IDLE
                        /\ r.trig.state = NLOOP_TSTATE_WAITRISE
                     THEN 1 ELSE 0
       IN  [triggers |-> [st.triggers EXCEPT ![cell] = r.trig],
            count |-> r.count,
            trigsout |-> [st.trigsout EXCEPT ![cell] = r.out],
            queued |-> st.queued + queued]

RECURSIVE ScanFrom(_, _, _, _, _, _)
ScanFrom(i, st, en, banks_act, chans_act, inp) ==
  IF i > Len(CellOrder) THEN st
  ELSE ScanFrom(i + 1,
                ScanCell(st, CellOrder[i], en, banks_act, chans_act, inp),
                en, banks_act, chans_act, inp)

\* The variant that hands every trigger the quota by value: each cell sees
\* the quota as it was before the scan, and the bank keeps the smallest
\* value left.
RECURSIVE ScanByValue(_, _, _, _, _, _, _)
ScanByValue(i, st, count0, en, banks_act, chans_act, inp) ==
  IF i > Len(CellOrder) THEN st
  ELSE LET one == ScanCell([st EXCEPT !.count = count0], CellOrder[i],
                           en, banks_act, chans_act, inp)
       IN  ScanByValue(i + 1,
                       [one EXCEPT !.count = Min(st.count, one.count)],
                       count0, en, banks_act, chans_act, inp)

BankScan_QuotaByValue(trigs, count, out, en, banks_act, chans_act, inp) ==
  ScanByValue(1, [triggers |-> trigs, count |-> count, trigsout |-> out,
                  queued |-> 0],
              count, en, banks_act, chans_act, inp)

\* ProcessSamples, the scan of the active banks and channels.
BankScan(trigs, count, out, en, banks_act, chans_act, inp) ==
  ScanFrom(1, [triggers |-> trigs, count |-> count, trigsout |-> out,
               queued |-> 0],
           en, banks_act, chans_act, inp)

\* The variant that stops updating the triggers once the window has
\* closed, reporting false for every active cell.
BankProcessSamples_SkipWhenClosed(trigs, count, window, out, en, banks_act, chans_act, inp) ==
  LET ws == WindowStep(window, count)
      st == BankScan(trigs, ws.count, out, en, banks_act, chans_act, inp)
  IN  IF window > 0
        THEN [triggers |-> st.triggers, count |-> st.count,
              window |-> ws.window, trigsout |-> st.trigsout,
              queued |-> st.queued]
        ELSE [triggers |-> trigs, count |-> ws.count, window |-> ws.window,
              trigsout |-> [c \in Cells |->
                              IF IsActive(c, banks_act, chans_act)
                                THEN FALSE ELSE out[c]],
              queued |-> 0]

\* nloop_TriggerBank_t::ProcessSamples.
BankProcessSamples(trigs, count, window, out, en, banks_act, chans_act, inp) ==
  LET ws == WindowStep(window, count)
      st == BankScan(trigs, ws.count, out, en, banks_act, chans_act, inp)
  IN  [triggers |-> st.triggers, count |-> st.count, window |-> ws.window,
       trigsout |-> st.trigsout, queued |-> st.queued]

\* The variant that resets only the triggers of the active subrectangle.
BankForceIdleTriggers_ActiveOnly(trigs, banks_act, chans_act) ==
  [c \in Cells |-> IF IsActive(c, banks_act, chans_act)
                     THEN TrigForceIdle(trigs[c]) ELSE trigs[c]]

\* nloop_TriggerBank_t::ForceIdle, the loop over triggers[bankcount][chancount].
BankForceIdleTriggers(trigs, banks_act, chans_act) ==
  [c \in Cells |-> TrigForceIdle(trigs[c])]

(***************************************************************************)
(* State.                                                                  *)
(*                                                                         *)
(* A single trigger driven directly by its caller:                         *)
(*   trig             the nloop_Trigger_t object                           *)
(*   trig_count_left  the caller's quota, passed by reference              *)
(*   t_out            the value the last ProcessSample returned            *)
(*   t_op, t_in       the last operation called and its detection flag     *)
(*   t_prev           the trigger state, the quota and the two run lengths *)
(*                    before the last call                                 *)
(*   run_true         length of the run of true returns ending now         *)
(*   run_false        false returns since the last true one                *)
(*   pulses_clean     pulses begun since the last ForceIdle / ResetState / *)
(*                    setter call (counted up to 2)                        *)
(*   held             reraise_ok is false, a pulse has ended, and every    *)
(*                    tick since has had the detection flag asserted       *)
(***************************************************************************)
VARIABLES trig, trig_count_left, t_out, t_op, t_in, t_prev,
          run_true, run_false, pulses_clean, held

trigVars == <<trig, trig_count_left, t_out, t_op, t_in, t_prev,
              run_true, run_false, pulses_clean, held>>

(***************************************************************************)
(* The same trigger fed the input stream of the phase-alignment scenario:  *)
(*   tick     index of the next ProcessSample call (the first is tick 0)   *)
(*   e_outs   the values returned so far, e_outs[k+1] for tick k           *)
(*   e_dets   the detection flags fed so far                               *)
(***************************************************************************)
VARIABLES tick, e_outs, e_dets

scenVars == <<tick, e_outs, e_dets>>

(***************************************************************************)
(* A trigger bank, nloop_TriggerBank_t<indextype_t, 1, 2>:                 *)
(*   triggers, enabled, trigger_count_left, window_time_left,              *)
(*   banks_active, chans_active      the members of the class              *)
(*   trigsout        the caller's output slice                             *)
(*   b_op            "ForceIdle" or "ProcessSamples" if that was the last  *)
(*                   operation called                                      *)
(*   b_left          the window W of the last EnableTriggering minus the   *)
(*                   ProcessSamples calls made since: 0 after the W-th     *)
(*                   call; -1 after any later call, after                  *)
(*                   DisableTriggering or ForceIdle, and before the first  *)
(*                   EnableTriggering                                      *)
(*   b_budget        max_pulses of the last EnableTriggering minus the     *)
(*                   Idle -> WaitRise transitions made since               *)
(*   b_queued_now    Idle -> WaitRise transitions made by the last         *)
(*                   operation                                             *)
(*   b_run, b_prun   per cell, the run of true outputs ending now, and     *)
(*                   before the last operation                             *)
(*   b_clean         per cell, a pulse has begun and since then the cell   *)
(*                   was dispatched in every call and ForceIdle was not    *)
(*                   called                                                *)
(*   b_shut          per cell, during the pulse a call found the window    *)
(*                   at 0 (quota forced to 0) or DisableTriggering was     *)
(*                   called                                                *)
(***************************************************************************)
VARIABLES triggers, enabled, trigger_count_left, window_time_left,
          banks_active, chans_active, trigsout,
          b_op, b_left, b_budget, b_queued_now,
          b_run, b_prun, b_clean, b_shut

bankVars == <<triggers, enabled, trigger_count_left, window_time_left,
              banks_active, chans_active, trigsout,
              b_op, b_left, b_budget, b_queued_now,
              b_run, b_prun, b_clean, b_shut>>

(***************************************************************************)
(* Shift primitives: the macros NLOOP_ARITHSHR and NLOOP_ARITHSHR_UNSIGNED *)
(* on a storage type of ShiftBits bits.  A value of unsigned storage is    *)
(* its bit pattern, a number in 0 .. 2^ShiftBits - 1.                      *)
(***************************************************************************)
ShiftBits == 4

ShiftMod == 2 ^ ShiftBits

ShiftVals == 0 .. (ShiftMod - 1)

ShiftCounts == 0 .. (ShiftBits - 1)

\* The two's-complement reading of a bit pattern, and back.
ToSigned(u) == IF u >= ShiftMod \div 2 THEN u - ShiftMod ELSE u

ToUnsigned(s) == s % ShiftMod

\* ~X stored back into the unsigned type.
BitNot(u) == ShiftMod - 1 - u

\* X >>= Y on an unsigned operand.
LogicalShr(u, k) == u \div (2 ^ k)

\* ( (~(X)) < (X) ).  A type narrower than int is promoted to int before
\* the complement, so ~X is the negative int -X-1; otherwise ~X stays in the
\* unsigned type.
NLOOP_UNSIGNED_ISNEG(x, promoted) ==
  IF promoted THEN (0 - x - 1) < x ELSE BitNot(x) < x

\* { (X) = ~(X); (X)++; }
NLOOP_UNSIGNED_NEGATE(x) == (BitNot(x) + 1) % ShiftMod

\* Negate, shift, negate when the operand reads as negative; else shift.
NLOOP_ARITHSHR_UNSIGNED(x, k, promoted) ==
  IF NLOOP_UNSIGNED_ISNEG(x, promoted)
  THEN NLOOP_UNSIGNED_NEGATE(LogicalShr(NLOOP_UNSIGNED_NEGATE(x), k))
  ELSE LogicalShr(x, k)

\* NLOOP_ARITHSHR on a signed operand: the set of results the build can
\* produce.  The fast variant is the native shift of a signed value, an
\* arithmetic shift.  The variant under NLOOP_SIGN_SAFE_SHIFT negates a
\* negative operand in place, shifts and negates in place again.  Negating
\* the most negative value overflows where the type is not promoted to int,
\* and the overflow is undefined, so any value may result; where the type is
\* promoted, the negation is stored back into the type and is the most
\* negative value again.
NLOOP_ARITHSHR(s, k, sign_safe, promoted) ==
  IF ~sign_safe \/ s >= 0
  THEN {s \div (2 ^ k)}
  ELSE IF s = 0 - (ShiftMod \div 2) /\ ~promoted
       THEN {ToSigned(u) : u \in ShiftVals}
       ELSE LET negated == ToSigned(ToUnsigned(0 - s))
                shifted == negated \div (2 ^ k)
            IN {ToSigned(ToUnsigned(0 - shifted))}

VARIABLES sh_x, sh_k, sh_promoted, sh_safe, sh_u, sh_s, sh_done

shiftVars == <<sh_x, sh_k, sh_promoted, sh_safe, sh_u, sh_s, sh_done>>

ShiftIdleVars ==
  /\ sh_x = 0
  /\ sh_k = 0
  /\ sh_promoted = FALSE
  /\ sh_safe = FALSE
  /\ sh_u = 0
  /\ sh_s = 0
  /\ sh_done = {}

(***************************************************************************)
(* Sample arithmetic.  A sample type samptype_t is modelled as a type of   *)
(* ShiftBits bits that is narrower than int: arithmetic is done in int and *)
(* the result is reduced modulo 2^ShiftBits when it is stored.  A value is *)
(* the number the type reads it as.                                        *)
(***************************************************************************)
\* NLOOP_MINVAL(samptype_t), NLOOP_MAXVAL(samptype_t).
NLOOP_MINVAL(signed) == IF signed THEN 0 - (ShiftMod \div 2) ELSE 0

NLOOP_MAXVAL(signed) == IF signed THEN (ShiftMod \div 2) - 1 ELSE ShiftMod - 1

SampVals(signed) == NLOOP_MINVAL(signed) .. NLOOP_MAXVAL(signed)

\* Storing an int into samptype_t.
StoreSamp(v, signed) == IF signed THEN ToSigned(v % ShiftMod) ELSE v % ShiftMod

\* NLOOP_ARITHSHR(X, Y) on a samptype_t variable, in the build at hand.
SampArithShr(v, k, signed, sign_safe) ==
  IF signed
  THEN CHOOSE r \in NLOOP_ARITHSHR(v, k, sign_safe, TRUE) : TRUE
  ELSE v \div (2 ^ k)

\* The native X >>= Y on a samptype_t variable.
SampShr(v, k) == v \div (2 ^ k)

(***************************************************************************)
(* Auto-ranger, nloop_AutoRanger_t, instantiated with one channel.         *)
(***************************************************************************)
ArResetTracking(a) ==
  [a EXCEPT !.minvals = NLOOP_MAXVAL(a.signed),
            !.maxvals = NLOOP_MINVAL(a.signed)]

ArResetLatched(a) ==
  [a EXCEPT !.latched_offsets = 0, !.latched_attens = 0]

ArSetDesiredRange(a, newmin, newmax) ==
  LET scratchmin == SampArithShr(newmin, 1, a.signed, a.sign_safe)
      scratchmax0 == SampArithShr(newmax, 1, a.signed, a.sign_safe)
      scratchmax == IF scratchmax0 < scratchmin THEN scratchmin ELSE scratchmax0
  IN [a EXCEPT !.middle_wanted = StoreSamp(scratchmin + scratchmax, a.signed),
               !.halfspan_wanted = StoreSamp(scratchmax - scratchmin, a.signed)]

\* The members a constructor leaves unset are running_offsets and
\* running_attens; they are written by RecalcAttenOffset before any read.
ArConstruct(signed, sign_safe) ==
  ArResetLatched(ArResetTracking(ArSetDesiredRange(
    [signed |-> signed, sign_safe |-> sign_safe,
     countdown_active |-> FALSE, latch_countdown |-> 0,
     atten_tied |-> FALSE,
     minvals |-> 0, maxvals |-> 0,
     middle_wanted |-> 0, halfspan_wanted |-> 0,
     running_offsets |-> 0, running_attens |-> 0,
     latched_offsets |-> 0, latched_attens |-> 0],
    NLOOP_MINVAL(signed), NLOOP_MAXVAL(signed))))

\* while (thishalfspan > halfspan_wanted) { thisatten++; thishalfspan >>= 1; }
RECURSIVE ArAttenLoop(_, _, _)
\* The variant whose loop also runs while the half-span equals the wanted one.
ArAttenLoop_WhileAtLeast(thishalfspan, halfspan_wanted, thisatten) ==
  IF thishalfspan >= halfspan_wanted /\ thishalfspan > 0
  THEN ArAttenLoop(SampShr(thishalfspan, 1), halfspan_wanted, thisatten + 1)
  ELSE thisatten

ArAttenLoop(thishalfspan, halfspan_wanted, thisatten) ==
  IF thishalfspan > halfspan_wanted
  THEN ArAttenLoop(SampShr(thishalfspan, 1), halfspan_wanted, thisatten + 1)
  ELSE thisatten

ArRecalcAttenOffset(a) ==
  LET thismin0 == a.minvals
      thismax0 == IF a.maxvals < thismin0 THEN thismin0 ELSE a.maxvals
      thismin == SampArithShr(thismin0, 1, a.signed, a.sign_safe)
      thismax == SampArithShr(thismax0, 1, a.signed, a.sign_safe)
      thismiddle == StoreSamp(thismin + thismax, a.signed)
      thishalfspan == StoreSamp(thismax - thismin, a.signed)
      thisatten == ArAttenLoop(thishalfspan, a.halfspan_wanted, 0)
      shifted == SampArithShr(thismiddle, thisatten, a.signed, a.sign_safe)
  IN [a EXCEPT !.running_attens = thisatten,
               !.running_offsets = StoreSamp(a.middle_wanted - shifted, a.signed)]

\* The variant that applies the running pair whatever use_latched says.
ArCalcOutput_AlwaysRunning(a, indata, use_latched) ==
  LET b == ArRecalcAttenOffset(a)
  IN [ranger |-> b,
      out |-> StoreSamp(SampShr(indata, b.running_attens) + b.running_offsets,
                        b.signed)]

\* CalcOutput with one channel: the tied attenuation is the channel's own.
\* Yields the ranger (its running values recalculated) and the output.
ArCalcOutput(a, indata, use_latched) ==
  LET b == IF use_latched THEN a ELSE ArRecalcAttenOffset(a)
      thisoset == IF use_latched THEN b.latched_offsets ELSE b.running_offsets
      thisatten == IF use_latched THEN b.latched_attens ELSE b.running_attens
  IN [ranger |-> b,
      out |-> StoreSamp(SampShr(indata, thisatten) + thisoset, b.signed)]

ArLatchAfter(a, sampcount) ==
  [a EXCEPT !.latch_countdown = sampcount, !.countdown_active = TRUE]

ArTrack(a, thisval) ==
  [a EXCEPT !.minvals = IF thisval < @ THEN thisval ELSE @,
            !.maxvals = IF thisval > @ THEN thisval ELSE @]

ArLatchStep_SnapshotOnReachingZero(a) ==
  IF ~a.countdown_active THEN a
  ELSE IF a.latch_countdown > 1
       THEN [a EXCEPT !.latch_countdown = @ - 1]
       ELSE LET b == ArRecalcAttenOffset(a)
            IN [b EXCEPT !.countdown_active = FALSE,
                         !.latch_countdown = 0,
                         !.latched_offsets = b.running_offsets,
                         !.latched_attens = b.running_attens]

\* The variant that keeps copying the running pair once the countdown is over.
ArLatchStep_KeepsLatching(a) ==
  IF a.countdown_active /\ a.latch_countdown > 0
  THEN [a EXCEPT !.latch_countdown = @ - 1]
  ELSE LET b == ArRecalcAttenOffset(a)
       IN [b EXCEPT !.countdown_active = FALSE,
                    !.latch_countdown = 0,
                    !.latched_offsets = b.running_offsets,
                    !.latched_attens = b.running_attens]

\* The latching step of UpdateFromSample, after the minimum and maximum
\* were updated.
ArLatchStep(a) ==
  IF ~a.countdown_active THEN a
  ELSE IF a.latch_countdown > 0
       THEN [a EXCEPT !.latch_countdown = @ - 1]
       ELSE LET b == ArRecalcAttenOffset(a)
            IN [b EXCEPT !.countdown_active = FALSE,
                         !.latch_countdown = 0,
                         !.latched_offsets = b.running_offsets,
                         !.latched_attens = b.running_attens]

ArUpdateFromSample(a, thisval) == ArLatchStep(ArTrack(a, thisval))

(***************************************************************************)
(* IIR biquad, chain and filter bank.  A chain has stagecount stages and   *)
(* stagecount + 1 circular buffers of NLOOP_IIRBIQUADCHAIN_BUFSIZE         *)
(* samples.  The sample type is described by a record                      *)
(* [signed, promoted, sign_safe].                                          *)
(***************************************************************************)
NLOOP_IIRBIQUADCHAIN_BUFSIZE == 4

stagecount == 1

BufIdx == 0 .. (NLOOP_IIRBIQUADCHAIN_BUFSIZE - 1)

\* (ptr + mask) & mask with mask = BUFSIZE - 1: one step back.
BufBack(ptr) ==
  (ptr + NLOOP_IIRBIQUADCHAIN_BUFSIZE - 1) % NLOOP_IIRBIQUADCHAIN_BUFSIZE

\* BlankCoefficients of a biquad: all coefficients and den0_bits zero.
BlankBiquad ==
  [den0_bits |-> 0, den1 |-> 0, den2 |-> 0, num0 |-> 0, num1 |-> 0, num2 |-> 0]

\* The shift of ApplyBiquadOnceCircular, chosen by NLOOP_ISSIGNED.
BiquadShift(ty, outnow, bits) ==
  IF ty.signed
  THEN SampArithShr(outnow, bits, TRUE, ty.sign_safe)
  ELSE NLOOP_ARITHSHR_UNSIGNED(outnow, bits, ty.promoted)

ApplyBiquadOnceCircular_OneOutputTap(ty, q, inbuf, outbuf, ptr) ==
  LET innow == inbuf[ptr]
      inprev1 == inbuf[BufBack(ptr)]
      inprev2 == inbuf[BufBack(BufBack(ptr))]
      outprev1 == outbuf[BufBack(ptr)]
      outprev2 == outbuf[BufBack(ptr)]
      s0 == StoreSamp(q.num0 * innow, ty.signed)
      s1 == StoreSamp(s0 + q.num1 * inprev1, ty.signed)
      s2 == StoreSamp(s1 + q.num2 * inprev2, ty.signed)
      s3 == StoreSamp(s2 - q.den1 * outprev1, ty.signed)
      s4 == StoreSamp(s3 - q.den2 * outprev2, ty.signed)
  IN BiquadShift(ty, s4, q.den0_bits)

\* ApplyBiquadOnceCircular: the value written to outbuf[outptr].
ApplyBiquadOnceCircular(ty, q, inbuf, outbuf, ptr) ==
  LET innow == inbuf[ptr]
      inprev1 == inbuf[BufBack(ptr)]
      inprev2 == inbuf[BufBack(BufBack(ptr))]
      outprev1 == outbuf[BufBack(ptr)]
      outprev2 == outbuf[BufBack(BufBack(ptr))]
      s0 == StoreSamp(q.num0 * innow, ty.signed)
      s1 == StoreSamp(s0 + q.num1 * inprev1, ty.signed)
      s2 == StoreSamp(s1 + q.num2 * inprev2, ty.signed)
      s3 == StoreSamp(s2 - q.den1 * outprev1, ty.signed)
      s4 == StoreSamp(s3 - q.den2 * outprev2, ty.signed)
  IN BiquadShift(ty, s4, q.den0_bits)

\* The loop of ApplyChainOnce over the active stages, from stage sidx on.
RECURSIVE ChainStages(_, _, _, _)
ChainStages(ty, ch, buffers, sidx) ==
  IF sidx >= ch.stages_active THEN buffers
  ELSE ChainStages(ty, ch,
         [buffers EXCEPT ![sidx + 1][ch.bufptr] =
            ApplyBiquadOnceCircular(ty, ch.biquads[sidx], buffers[sidx],
                                    buffers[sidx + 1], ch.bufptr)],
         sidx + 1)

\* ApplyChainOnce: the chain after the call, and outdata.
ApplyChainOnce_ReadAfterIncrement(ty, ch, indata) ==
  LET b0 == [ch.buffers EXCEPT ![0][ch.bufptr] = indata]
      b1 == ChainStages(ty, ch, b0, 0)
      nextptr == (ch.bufptr + 1) % NLOOP_IIRBIQUADCHAIN_BUFSIZE
  IN [chain |-> [ch EXCEPT !.buffers = b1, !.bufptr = nextptr],
      outdata |-> b1[ch.stages_active][nextptr]]

ApplyChainOnce(ty, ch, indata) ==
  LET b0 == [ch.buffers EXCEPT ![0][ch.bufptr] = indata]
      b1 == ChainStages(ty, ch, b0, 0)
  IN [chain |-> [ch EXCEPT !.buffers = b1,
                           !.bufptr = (ch.bufptr + 1) % NLOOP_IIRBIQUADCHAIN_BUFSIZE],
      outdata |-> b1[ch.stages_active][ch.bufptr]]

ChainSetActiveStages(ch, new_stages) ==
  [ch EXCEPT !.stages_active =
     IF new_stages < 0 THEN 0
     ELSE IF new_stages > stagecount THEN stagecount ELSE new_stages]

ChainSetCoefficients(ch, stagenum, q) ==
  IF 0 <= stagenum /\ stagecount > stagenum
  THEN [ch EXCEPT !.biquads[stagenum] = q]
  ELSE ch

\* A new chain: zero coefficients, zero buffers.
ChainConstruct ==
  [biquads |-> [s \in 0 .. (stagecount - 1) |-> BlankBiquad],
   buffers |-> [s \in 0 .. stagecount |-> [i \in BufIdx |-> 0]],
   bufptr |-> 0,
   stages_active |-> 0]

\* nloop_IIRFilterBank_t::SetCoefficients: the loop runs over the channels
\* and writes biquads[banknum][0] each time.
IirBankSetCoefficients(chains, stagenum, banknum, q) ==
  IF banknum >= 0 /\ banknum < bankcount
  THEN [chains EXCEPT ![<<banknum, 0>>] = ChainSetCoefficients(@, stagenum, q)]
  ELSE chains

IirBankSetActiveStages(chains, new_stages) ==
  [c \in Cells |-> ChainSetActiveStages(chains[c], new_stages)]

\* ApplyBankOnce over the active rectangle: the chains and the output slice
\* (inactive cells keep their stale output).
IirBankApplyOnce(ty, chains, out, banks_act, chans_act, indata) ==
  LET r(c) == ApplyChainOnce(ty, chains[c], indata[c[2]])
  IN [chains |-> [c \in Cells |->
                    IF IsActive(c, banks_act, chans_act) THEN r(c).chain
                    ELSE chains[c]],
      out |-> [c \in Cells |->
                 IF IsActive(c, banks_act, chans_act) THEN r(c).outdata
                 ELSE out[c]]]

(***************************************************************************)
(* FIR filter and filter bank, nloop_FIRFilter_t and nloop_FIRFilterBank_t *)
(* with maxcoeffs coefficients and circular input buffers of buflen        *)
(* samples.                                                                *)
(***************************************************************************)
maxcoeffs == 2

buflen == 4

FirBufIdx == 0 .. (buflen - 1)

\* BlankCoefficients.
FirBlankCoefficients ==
  [fracbits |-> 0, coeffcount |-> 0, coeffs |-> [i \in 0 .. (maxcoeffs - 1) |-> 0]]

\* The loop of ApplyFIROnceCircular from coefficient cidx on.
RECURSIVE FirRunningTotal(_, _, _, _, _, _)
FirRunningTotal(ty, f, inbuf, inptr, cidx, running_total) ==
  IF cidx >= f.coeffcount THEN running_total
  ELSE FirRunningTotal(ty, f, inbuf, (inptr % buflen) + 1, cidx + 1,
         StoreSamp(running_total + inbuf[inptr % buflen] * f.coeffs[cidx],
                   ty.signed))

ApplyFIROnceCircular(ty, f, inbuf, inptr) ==
  SampArithShr(FirRunningTotal(ty, f, inbuf, inptr, 0, 0), f.fracbits,
               ty.signed, ty.sign_safe)

\* The constructor sets the geometry and blanks the filters; the input
\* buffers keep whatever they held.
FirBankConstruct(bufs) ==
  [firs |-> [b \in 0 .. (bankcount - 1) |-> FirBlankCoefficients],
   inbufs |-> bufs,
   bufptr |-> 0,
   chans_active |-> 0,
   banks_active |-> 0]

FirApplyBankOnce_ReadBeforeIncrement(ty, fb, indata) ==
  LET wptr == fb.bufptr % buflen
      inbufs == [c \in 0 .. (chancount - 1) |->
                   IF c < fb.chans_active
                   THEN [fb.inbufs[c] EXCEPT ![wptr] = indata[c]]
                   ELSE fb.inbufs[c]]
      nextptr == (wptr + 1) % buflen
      readidx(b) == (wptr - fb.firs[b].coeffcount) % buflen
  IN [bank |-> [fb EXCEPT !.inbufs = inbufs, !.bufptr = nextptr],
      out |-> [c \in Cells |->
                 IF IsActive(c, fb.banks_active, fb.chans_active)
                 THEN ApplyFIROnceCircular(ty, fb.firs[c[1]], inbufs[c[2]],
                                           readidx(c[1]))
                 ELSE 0]]

\* ApplyBankOnce: the bank after the call, and outdata.
FirApplyBankOnce(ty, fb, indata) ==
  LET wptr == fb.bufptr % buflen
      inbufs == [c \in 0 .. (chancount - 1) |->
                   IF c < fb.chans_active
                   THEN [fb.inbufs[c] EXCEPT ![wptr] = indata[c]]
                   ELSE fb.inbufs[c]]
      nextptr == (wptr + 1) % buflen
      readidx(b) == (nextptr - fb.firs[b].coeffcount) % buflen
  IN [bank |-> [fb EXCEPT !.inbufs = inbufs, !.bufptr = nextptr],
      out |-> [c \in Cells |->
                 IF IsActive(c, fb.banks_active, fb.chans_active)
                 THEN ApplyFIROnceCircular(ty, fb.firs[c[1]], inbufs[c[2]],
                                           readidx(c[1]))
                 ELSE 0]]

(***************************************************************************)
(* Averager, nloop_Averager_t, with coeffbits fractional coefficient bits. *)
(***************************************************************************)
coeffbits == 1

\* The shift of UpdateAverage, chosen by NLOOP_ISSIGNED.
AvShift(ty, v, bits) ==
  IF ty.signed
  THEN SampArithShr(v, bits, TRUE, ty.sign_safe)
  ELSE NLOOP_ARITHSHR_UNSIGNED(v, bits, ty.promoted)

\* The variant that scales the average taken before the update.
AvUpdateAverage_OutputFromOldAverage(ty, av, indata) ==
  LET old == AvShift(ty, av.running_sum, av.avgbits)
      sum1 == StoreSamp(av.running_sum - old, ty.signed)
      sum2 == StoreSamp(sum1 + indata, ty.signed)
      scaled == StoreSamp(old * av.coeff, ty.signed)
  IN [avg |-> [av EXCEPT !.running_sum = sum2],
      out |-> AvShift(ty, scaled, coeffbits)]

\* UpdateAverage: the averager after the call, and the returned value.
AvUpdateAverage(ty, av, indata) ==
  LET old == AvShift(ty, av.running_sum, av.avgbits)
      sum1 == StoreSamp(av.running_sum - old, ty.signed)
      sum2 == StoreSamp(sum1 + indata, ty.signed)
      mean == AvShift(ty, sum2, av.avgbits)
      scaled == StoreSamp(mean * av.coeff, ty.signed)
  IN [avg |-> [av EXCEPT !.running_sum = sum2],
      out |-> AvShift(ty, scaled, coeffbits)]

\* The bank's constructor: every cell active, coefficient 0, avgbits 0;
\* running_sum keeps whatever it held.
AvBankConstruct(sums) ==
  [c \in Cells |-> [running_sum |-> sums[c], coeff |-> 0, avgbits |-> 0]]

\* The bank's UpdateAverage with every cell active.
AvBankUpdateAverage(ty, avs, indata) ==
  [c \in Cells |-> AvUpdateAverage(ty, avs[c], indata[c])]

(***************************************************************************)
(* Threshold detectors.                                                    *)
(***************************************************************************)
\* nloop_ThresholdSingleBank_t::TestSamples.
TestSamples(indata, thresholds) ==
  [c \in Cells |-> indata[c] >= thresholds[c]]

\* nloop_ThresholdDualBank_t::ResetState.
DualResetState == [c \in Cells |-> FALSE]

\* nloop_ThresholdDualBank_t::TestDual: outflag, which is also the new
\* prev_state.
TestDual_ActivateOrSustain(prev_state, flag_activate, flag_sustain) ==
  [c \in Cells |-> flag_activate[c] \/ flag_sustain[c]]

TestDual(prev_state, flag_activate, flag_sustain) ==
  [c \in Cells |-> flag_activate[c] \/ (prev_state[c] /\ flag_sustain[c])]

(***************************************************************************)
(* Analytic estimator, nloop_Analytic_PTZC_t.  The record carries the      *)
(* types it is instantiated with: samptype_t of sbits bits, signed or not, *)
(* promoted to int or not in expressions, and an unsigned indextype_t of   *)
(* ibits bits.                                                             *)
(***************************************************************************)
IdxBits == 3

AnSampMod(e) == 2 ^ e.sbits

AnIdxMod(e) == 2 ^ e.ibits

\* NLOOP_MAXVAL(indextype_t).
AnIdxMax(e) == AnIdxMod(e) - 1

\* Storing an int into samptype_t and into indextype_t.
AnStoreSamp(e, v) ==
  LET u == v % AnSampMod(e)
  IN IF e.signed /\ u >= AnSampMod(e) \div 2 THEN u - AnSampMod(e) ELSE u

AnStoreIdx(e, v) == v % AnIdxMod(e)

\* NLOOP_UNSIGNED_ISNEG(sampval) on this samptype_t.
AnUnsignedIsNeg(e, x) ==
  IF e.promoted THEN (0 - x - 1) < x ELSE (AnSampMod(e) - 1 - x) < x

\* NLOOP_UNSIGNED_NEGATE(thismag) on this samptype_t.
AnUnsignedNegate(e, x) == ((AnSampMod(e) - 1 - x) + 1) % AnSampMod(e)

AnTypes(sbits, ibits) ==
  { [signed |-> TRUE, promoted |-> TRUE, sbits |-> sbits, ibits |-> ibits],
    [signed |-> FALSE, promoted |-> TRUE, sbits |-> sbits, ibits |-> ibits],
    [signed |-> FALSE, promoted |-> FALSE, sbits |-> sbits, ibits |-> ibits] }

AnResetState(e) ==
  [e EXCEPT !.zero_level = 0,
            !.min_zc_gap = AnIdxMax(e),
            !.max_mag_seen = 0,
            !.last_mag = 0,
            !.since_rise_count = 0,
            !.since_fall_count = 0,
            !.last_period = 0]

AnConstruct(type) ==
  AnResetState([signed |-> type.signed, promoted |-> type.promoted,
                sbits |-> type.sbits, ibits |-> type.ibits,
                zero_level |-> 0, min_zc_gap |-> 0, max_mag_seen |-> 0,
                last_mag |-> 0, since_rise_count |-> 0,
                since_fall_count |-> 0, last_period |-> 0])

AnSetMinPeriod(e, newminperiod) ==
  [e EXCEPT !.min_zc_gap = newminperiod \div 2]

AnSetZeroLevel(e, newzero) == [e EXCEPT !.zero_level = newzero]

\* since_rise_count++; since_fall_count++;
AnCount(e) ==
  [e EXCEPT !.since_rise_count = AnStoreIdx(e, @ + 1),
            !.since_fall_count = AnStoreIdx(e, @ + 1)]

\* The level shift, the sign and the magnitude of a sample.
AnShifted(e, sampval) == AnStoreSamp(e, sampval - e.zero_level)

AnIsNegative(e, v) == IF e.signed THEN v < 0 ELSE AnUnsignedIsNeg(e, v)

AnMagnitude(e, v) ==
  IF e.signed
  THEN AnStoreSamp(e, IF v < 0 THEN 0 - v ELSE v)
  ELSE IF AnUnsignedIsNeg(e, v) THEN AnUnsignedNegate(e, v) ELSE v

\* The variant that restarts both counters at a crossing.
AnCrossing_ResetBothCounters(e, is_negative, thismag) ==
  IF e.since_rise_count > e.since_fall_count
  THEN IF ~is_negative /\ e.since_fall_count >= e.min_zc_gap
       THEN [e EXCEPT !.last_period =
                        AnStoreIdx(e, 2 * AnStoreIdx(e, e.since_rise_count - e.since_fall_count)),
                      !.last_mag = e.max_mag_seen,
                      !.max_mag_seen = thismag,
                      !.since_rise_count = 0,
                      !.since_fall_count = 0]
       ELSE e
  ELSE IF is_negative /\ e.since_rise_count >= e.min_zc_gap
       THEN [e EXCEPT !.last_period =
                        AnStoreIdx(e, 2 * AnStoreIdx(e, e.since_fall_count - e.since_rise_count)),
                      !.last_mag = e.max_mag_seen,
                      !.max_mag_seen = thismag,
                      !.since_rise_count = 0,
                      !.since_fall_count = 0]
       ELSE e

\* The variant that tests the sign and the gap but not which lobe it is in.
AnCrossing_LobeUntested(e, is_negative, thismag) ==
  IF ~is_negative
  THEN IF e.since_fall_count >= e.min_zc_gap
       THEN [e EXCEPT !.last_period =
                        AnStoreIdx(e, 2 * AnStoreIdx(e, e.since_rise_count - e.since_fall_count)),
                      !.last_mag = e.max_mag_seen,
                      !.max_mag_seen = thismag,
                      !.since_rise_count = 0]
       ELSE e
  ELSE IF e.since_rise_count >= e.min_zc_gap
       THEN [e EXCEPT !.last_period =
                        AnStoreIdx(e, 2 * AnStoreIdx(e, e.since_fall_count - e.since_rise_count)),
                      !.last_mag = e.max_mag_seen,
                      !.max_mag_seen = thismag,
                      !.since_fall_count = 0]
       ELSE e

\* The variant that tests the lobe and the sign but not the gap.
AnCrossing_GapUntested(e, is_negative, thismag) ==
  IF e.since_rise_count > e.since_fall_count
  THEN IF ~is_negative
       THEN [e EXCEPT !.last_period =
                        AnStoreIdx(e, 2 * AnStoreIdx(e, e.since_rise_count - e.since_fall_count)),
                      !.last_mag = e.max_mag_seen,
                      !.max_mag_seen = thismag,
                      !.since_rise_count = 0]
       ELSE e
  ELSE IF is_negative
       THEN [e EXCEPT !.last_period =
                        AnStoreIdx(e, 2 * AnStoreIdx(e, e.since_fall_count - e.since_rise_count)),
                      !.last_mag = e.max_mag_seen,
                      !.max_mag_seen = thismag,
                      !.since_fall_count = 0]
       ELSE e

\* The zero-crossing test and its updates, counters already incremented and
\* max_mag_seen already raised.
AnCrossing(e, is_negative, thismag) ==
  IF e.since_rise_count > e.since_fall_count
  THEN IF ~is_negative /\ e.since_fall_count >= e.min_zc_gap
       THEN [e EXCEPT !.last_period =
                        AnStoreIdx(e, 2 * AnStoreIdx(e, e.since_rise_count - e.since_fall_count)),
                      !.last_mag = e.max_mag_seen,
                      !.max_mag_seen = thismag,
                      !.since_rise_count = 0]
       ELSE e
  ELSE IF is_negative /\ e.since_rise_count >= e.min_zc_gap
       THEN [e EXCEPT !.last_period =
                        AnStoreIdx(e, 2 * AnStoreIdx(e, e.since_fall_count - e.since_rise_count)),
                      !.last_mag = e.max_mag_seen,
                      !.max_mag_seen = thismag,
                      !.since_fall_count = 0]
       ELSE e

AnHandleSample(e, sampval) ==
  LET c == AnCount(e)
      v == AnShifted(c, sampval)
      is_negative == AnIsNegative(c, v)
      thismag == AnMagnitude(c, v)
      m == [c EXCEPT !.max_mag_seen = IF thismag > @ THEN thismag ELSE @]
  IN AnCrossing(m, is_negative, thismag)

\* GetEstimatedAnalytic.
AnGetEstimatedAnalytic(e) ==
  [magnitude |-> e.last_mag, period |-> e.last_period,
   since_rise_zc |-> e.since_rise_count, since_fall_zc |-> e.since_fall_count]

(***************************************************************************)
(* State of the signal-processing modules: the auto-ranger ar, the IIR     *)
(* bank iir, the FIR bank fir, the averager bank avg, the analytic         *)
(* estimator an and the dual-threshold detector th.  The _h variables and  *)
(* zs record what was asked of a module and what it returned.              *)
(***************************************************************************)
VARIABLES ar, ar_h, iir, iir_h, fir, avg, an, an_h, th, th_h, zs

dspVars == <<ar, ar_h, iir, iir_h, fir, avg, an, an_h, th, th_h, zs>>

Unused == [unused |-> TRUE]

DspIdleVars ==
  /\ ar = Unused
  /\ ar_h = Unused
  /\ iir = Unused
  /\ iir_h = Unused
  /\ fir = Unused
  /\ avg = Unused
  /\ an = Unused
  /\ an_h = Unused
  /\ th = Unused
  /\ th_h = Unused
  /\ zs = Unused

(***************************************************************************)
(* nloop_DeGlitcher_t: delays rising and falling edges.  A de-glitcher is  *)
(* the record of its five fields; indextype_t is unsigned and the delays   *)
(* are drawn from 0 .. MaxDelay, where no countdown leaves the type.       *)
(***************************************************************************)
MaxDelay == 3

DelayVals == 0 .. MaxDelay

\* SetDelays(new_rise_delay, new_fall_delay).
DgSetDelays(d, new_rise_delay, new_fall_delay) ==
  [d EXCEPT !.rise_delay = new_rise_delay,
            !.fall_delay = new_fall_delay,
            !.rise_countdown = 0,
            !.fall_countdown = 0,
            !.last_output = FALSE]

\* The variant that leaves fall_countdown alone while the input stays high.
DgOutputHigh_NoReload(d, indata) ==
  IF indata
    THEN d
    ELSE IF 0 >= d.fall_countdown
           THEN [d EXCEPT !.last_output = FALSE,
                          !.rise_countdown = d.rise_delay]
           ELSE [d EXCEPT !.fall_countdown = d.fall_countdown - 1]

\* ProcessSample(indata) with the output high.
DgOutputHigh(d, indata) ==
  IF indata
    THEN [d EXCEPT !.fall_countdown = d.fall_delay]
    ELSE IF 0 >= d.fall_countdown
           THEN [d EXCEPT !.last_output = FALSE,
                          !.rise_countdown = d.rise_delay]
           ELSE [d EXCEPT !.fall_countdown = d.fall_countdown - 1]

\* ProcessSample(indata) with the output low.
DgOutputLow(d, indata) ==
  IF ~indata
    THEN [d EXCEPT !.rise_countdown = d.rise_delay]
    ELSE IF 0 >= d.rise_countdown
           THEN [d EXCEPT !.last_output = TRUE,
                          !.fall_countdown = d.fall_delay]
           ELSE [d EXCEPT !.rise_countdown = d.rise_countdown - 1]

\* ProcessSample(indata): the de-glitcher afterwards; the value returned is
\* its last_output.
DgProcessSample(d, indata) ==
  IF d.last_output THEN DgOutputHigh(d, indata) ELSE DgOutputLow(d, indata)

(***************************************************************************)
(* nloop_LookupMonoStep_t: stepwise lookup table of rowcount rows.  A      *)
(* table is the record of input_lut, output_lut (functions of the row      *)
(* index) and rows_active.                                                 *)
(***************************************************************************)
rowcount == 3

MaxLutVal == 2

LutInVals == 0 .. MaxLutVal

LutOutVals == {0, 1, 2}

LutRows == 0 .. (rowcount - 1)

\* BlankTable().
LutBlankTable(t) ==
  [t EXCEPT !.input_lut = [ridx \in LutRows |-> 0],
            !.output_lut = [ridx \in LutRows |-> 0]]

\* The constructor: blanked table, zero size.
LutConstruct ==
  [input_lut |-> [ridx \in LutRows |-> 0],
   output_lut |-> [ridx \in LutRows |-> 0],
   rows_active |-> 0]

\* SetEntry(rowidx, inval, outval).
LutSetEntry(t, rowidx, inval, outval) ==
  IF rowidx >= 0 /\ rowidx < rowcount
    THEN [t EXCEPT !.input_lut[rowidx] = inval,
                   !.output_lut[rowidx] = outval]
    ELSE t

\* SetActiveRows(new_rows).
LutSetActiveRows(t, new_rows) ==
  [t EXCEPT !.rows_active = IF new_rows < 0 THEN 0
                            ELSE IF new_rows > rowcount THEN rowcount
                            ELSE new_rows]

\* ridxmax of both lookups.
LutRidxMax(t) ==
  IF t.rows_active > rowcount THEN rowcount ELSE t.rows_active

\* The loop of Lookup_LE, from row ridx down to row 0, assigning outval on
\* every match, in the order of the loop.
RECURSIVE LutScan_LE(_, _, _, _)
LutScan_LE_KeepFirstAssigned(t, inval, ridx, outval) ==
  IF ridx < 0 THEN outval
  ELSE IF t.input_lut[ridx] <= inval
         THEN t.output_lut[ridx]
         ELSE LutScan_LE(t, inval, ridx - 1, outval)

LutScan_LE(t, inval, ridx, outval) ==
  IF ridx < 0 THEN outval
  ELSE LutScan_LE(t, inval, ridx - 1,
                  IF t.input_lut[ridx] <= inval
                    THEN t.output_lut[ridx] ELSE outval)

\* The loop of Lookup_GE.
RECURSIVE LutScan_GE(_, _, _, _)
LutScan_GE(t, inval, ridx, outval) ==
  IF ridx < 0 THEN outval
  ELSE LutScan_GE(t, inval, ridx - 1,
                  IF t.input_lut[ridx] >= inval
                    THEN t.output_lut[ridx] ELSE outval)

\* Lookup_LE(inval).
Lookup_LE(t, inval) == LutScan_LE(t, inval, LutRidxMax(t) - 1, 0)

\* Lookup_GE(inval).
Lookup_GE(t, inval) == LutScan_GE(t, inval, LutRidxMax(t) - 1, 0)

(***************************************************************************)
(* nloop_FastModulo<datatype_t, subcount>: shift-and-subtract modulo.      *)
(* datatype_t is the unsigned type of ShiftBits bits; testval is stored in *)
(* it, which keeps the low ShiftBits bits of the shifted modulus.          *)
(***************************************************************************)
MaxSubcount == 3

\* The loop from bitshift down to 1.
RECURSIVE FastModuloLoop(_, _, _)
FastModuloLoop_ShiftByBitshift(sample, modulus, bitshift) ==
  IF bitshift <= 0 THEN sample
  ELSE LET testval == (modulus * 2 ^ bitshift) % ShiftMod
       IN FastModuloLoop(IF sample >= testval THEN sample - testval ELSE sample,
                         modulus, bitshift - 1)

FastModuloLoop(sample, modulus, bitshift) ==
  IF bitshift <= 0 THEN sample
  ELSE LET testval == (modulus * 2 ^ (bitshift - 1)) % ShiftMod
       IN FastModuloLoop(IF sample >= testval THEN sample - testval ELSE sample,
                         modulus, bitshift - 1)

\* nloop_FastModulo<datatype_t, subcount>(sample, modulus).
nloop_FastModulo(subcount, sample, modulus) ==
  FastModuloLoop(sample, modulus, subcount)

(***************************************************************************)
(* Configuration of the FIR filter and its bank.                           *)
(***************************************************************************)
\* nloop_FIRFilter_t::SetCoeffCount(newcount).
FirSetCoeffCount(f, newcount) ==
  [f EXCEPT !.coeffcount = IF newcount < 0 THEN 0
                           ELSE IF newcount > maxcoeffs THEN maxcoeffs
                           ELSE newcount]

\* nloop_FIRFilter_t::SetAllCoefficients(newbits, newcoeffcount, newcoeffs):
\* every coefficient is copied, then SetFracBits and SetCoeffCount.
FirSetAllCoefficients(f, newbits, newcoeffcount, newcoeffs) ==
  FirSetCoeffCount([f EXCEPT !.coeffs = [i \in 0 .. (maxcoeffs - 1) |-> newcoeffs[i]],
                             !.fracbits = newbits],
                   newcoeffcount)

\* nloop_FIRFilterBank_t::SetBankCoefficients(banknum, ...).
FirSetBankCoefficients(fb, banknum, newbits, newcoeffcount, newcoeffs) ==
  IF banknum >= 0 /\ banknum < bankcount
    THEN [fb EXCEPT !.firs[banknum] =
            FirSetAllCoefficients(@, newbits, newcoeffcount, newcoeffs)]
    ELSE fb

\* nloop_FIRFilterBank_t::SetActiveChans(new_chans).
FirSetActiveChans(fb, new_chans) ==
  [fb EXCEPT !.chans_active = IF new_chans < 0 THEN 0
                              ELSE IF new_chans > chancount THEN chancount
                              ELSE new_chans]

\* nloop_FIRFilterBank_t::SetActiveBanks(new_banks).
FirSetActiveBanks(fb, new_banks) ==
  [fb EXCEPT !.banks_active = IF new_banks < 0 THEN 0
                              ELSE IF new_banks > bankcount THEN bankcount
                              ELSE new_banks]

(***************************************************************************)
(* State of the utility modules: de-glitcher, lookup table, fast modulo,   *)
(* the reference biquad cascade and the FIR bookkeeping.                   *)
(***************************************************************************)
VARIABLES dg, dg_h, lut, lut_h, fm, ref, fir_h, avg_h, saw

utilVars == <<dg, dg_h, lut, lut_h, fm, ref, fir_h, avg_h, saw>>

UtilIdleVars ==
  /\ dg = Unused
  /\ dg_h = Unused
  /\ lut = Unused
  /\ lut_h = Unused
  /\ fm = Unused
  /\ ref = Unused
  /\ fir_h = Unused
  /\ avg_h = Unused
  /\ saw = Unused

\* nloop_Averager_t::SetCoeff and SetAvgBits.
AvSetCoeff(av, new_coeff) == [av EXCEPT !.coeff = new_coeff]

AvSetAvgBits(av, new_avgbits) == [av EXCEPT !.avgbits = new_avgbits]

(***************************************************************************)
(* Auto-ranger, nloop_AutoRanger_t, instantiated with chancount channels.  *)
(* The object is held as one record per channel; the members the channels  *)
(* share (countdown_active, latch_countdown, middle_wanted,                *)
(* halfspan_wanted, atten_tied) are written alike in every record.         *)
(***************************************************************************)
ArChans == 0 .. (chancount - 1)

ArChansConstruct(signed, sign_safe) ==
  [c \in ArChans |-> ArConstruct(signed, sign_safe)]

\* The variant that stores its argument in atten_tied.
ArChansResetTracking_StoresArgument(rs, want_shared_atten) ==
  [c \in ArChans |->
     [ArResetTracking(rs[c]) EXCEPT !.atten_tied = want_shared_atten]]

\* ResetTracking(want_shared_atten): the argument is not read.
ArChansResetTracking(rs, want_shared_atten) ==
  [c \in ArChans |-> ArResetTracking(rs[c])]

ArChansResetLatched(rs) == [c \in ArChans |-> ArResetLatched(rs[c])]

ArChansLatchAfter(rs, sampcount) ==
  [c \in ArChans |-> ArLatchAfter(rs[c], sampcount)]

ArChansSetDesiredRange(rs, newmin, newmax) ==
  [c \in ArChans |-> ArSetDesiredRange(rs[c], newmin, newmax)]

\* UpdateFromSample(data): every channel tracks its sample, then the one
\* countdown steps and, on firing, every channel is recalculated and latched.
ArChansUpdateFromSample(rs, data) ==
  [c \in ArChans |-> ArUpdateFromSample(rs[c], data[c])]

\* GetRunningAttenOffset(bitshifts, offsets) recalculates the running values.
ArChansGetRunningAttenOffset(rs) ==
  [c \in ArChans |-> ArRecalcAttenOffset(rs[c])]

\* SetAttenOffset(bitshifts, offsets); the attenuation is cast to uint8_t.
ArChansSetAttenOffset(rs, bitshifts, offsets) ==
  [c \in ArChans |-> [rs[c] EXCEPT !.latched_offsets = offsets[c],
                                   !.latched_attens = bitshifts[c] % 256]]

ArChanAtten(r, use_latched) ==
  IF use_latched THEN r.latched_attens ELSE r.running_attens

ArChanOset(r, use_latched) ==
  IF use_latched THEN r.latched_offsets ELSE r.running_offsets

\* The "tied" attenuation: the maximum of the per-channel attenuations.
ArGroupAtten(rs, use_latched) ==
  CHOOSE g \in {0} \cup {ArChanAtten(rs[c], use_latched) : c \in ArChans} :
    \A c \in ArChans : ArChanAtten(rs[c], use_latched) <= g

\* CalcOutput(indata, outdata, use_latched) over all channels.
ArChansCalcOutput(rs, indata, use_latched) ==
  LET bs == IF use_latched THEN rs ELSE ArChansGetRunningAttenOffset(rs)
      groupatten == ArGroupAtten(bs, use_latched)
      thisatten(c) == IF bs[c].atten_tied THEN groupatten
                      ELSE ArChanAtten(bs[c], use_latched)
  IN [ranger |-> bs,
      out |-> [c \in ArChans |->
                 StoreSamp(SampShr(indata[c], thisatten(c))
                             + ArChanOset(bs[c], use_latched),
                           bs[c].signed)]]

vars == <<trigVars, scenVars, bankVars, shiftVars, dspVars, utilVars>>

RunCap == MaxCool + 2

(***************************************************************************)
(* Trigger bank: operations.                                               *)
(***************************************************************************)
MaxWindow == 2

\* The inputs of the bank: a signal below or above the target, and the
\* period 0 that the analytic estimator reports before the first full cycle.
BankSigVals == {0, MaxSig}
BankInputs ==
  [Cells -> [sig : BankSigVals, target : {1}, period : {0},
             detect : BOOLEAN]]

NoCells == [c \in Cells |-> FALSE]
ZeroCells == [c \in Cells |-> 0]

\* The bookkeeping of a bank on which nothing has been called yet.
BankFreshHistory ==
  /\ b_op = "other"
  /\ b_left = -1
  /\ b_budget = 0
  /\ b_queued_now = 0
  /\ b_run = ZeroCells
  /\ b_prun = ZeroCells
  /\ b_clean = NoCells
  /\ b_shut = NoCells

\* The bank as constructed (ResetState): nothing active, nothing enabled.
BankIdleVars ==
  /\ triggers = [c \in Cells |-> TrigResetState]
  /\ enabled = NoCells
  /\ trigger_count_left = 0
  /\ window_time_left = 0
  /\ banks_active = 0
  /\ chans_active = 0
  /\ trigsout = NoCells
  /\ BankFreshHistory

(***************************************************************************)
(* Single trigger: operations.                                             *)
(***************************************************************************)
\* The constructed trigger, configured through its setters before streaming.
TrigInit ==
  /\ \E d \in 1..MaxDur, c \in 1..MaxCool, r \in BOOLEAN :
       trig = TrigSetReRaise(
                TrigSetPulseCooldown(
                  TrigSetPulseDuration(TrigResetState, d), c), r)
  /\ trig_count_left \in 0..MaxCount
  /\ t_out = FALSE
  /\ t_op = "other"
  /\ t_in = FALSE
  /\ t_prev = [state |-> NLOOP_TSTATE_IDLE, count |-> 0,
              run_true |-> 0, run_false |-> 0, timeout_left |-> 0]
  /\ run_true = 0
  /\ run_false = 0
  /\ pulses_clean = 0
  /\ held = FALSE
  /\ tick = 0 /\ e_outs = <<>> /\ e_dets = <<>>
  /\ BankIdleVars
  /\ ShiftIdleVars
  /\ DspIdleVars
  /\ UtilIdleVars

TrigIdleVars ==
  /\ trig = TrigResetState
  /\ trig_count_left = 0
  /\ t_out = FALSE
  /\ t_op = "other"
  /\ t_in = FALSE
  /\ t_prev = [state |-> NLOOP_TSTATE_IDLE, count |-> 0,
              run_true |-> 0, run_false |-> 0, timeout_left |-> 0]
  /\ run_true = 0
  /\ run_false = 0
  /\ pulses_clean = 0
  /\ held = FALSE

\* One call of ProcessSample, with the bookkeeping of what it returned.
T_Tick(thisval, thistarget, thisperiod, thisdetectflag) ==
  \E r \in {TrigProcessSample(trig, thisval, thistarget, thisperiod,
                               thisdetectflag, trig_count_left)} :
  LET entering == trig.state = NLOOP_TSTATE_WAITRISE
                  /\ r.trig.state = NLOOP_TSTATE_WAITFALL
      ending == trig.state = NLOOP_TSTATE_WAITFALL
                /\ r.trig.state = NLOOP_TSTATE_WAITCOOL
  IN  /\ trig' = r.trig
      /\ trig_count_left' = r.count
      /\ t_out' = r.out
      /\ t_op' = "ProcessSample"
      /\ t_in' = thisdetectflag
      /\ t_prev' = [state |-> trig.state, count |-> trig_count_left,
                  run_true |-> run_true, run_false |-> run_false,
                  timeout_left |-> trig.timeout_left]
      /\ run_true' = IF r.out THEN Min(run_true + 1, RunCap) ELSE 0
      /\ run_false' = IF r.out \/ pulses_clean = 0 THEN 0
                      ELSE Min(run_false + 1, RunCap)
      /\ pulses_clean' = IF entering THEN Min(pulses_clean + 1, 2)
                         ELSE pulses_clean
      /\ held' = IF ending THEN ~trig.reraise_ok
                 ELSE held /\ thisdetectflag

T_ProcessSample ==
  /\ \E thisval \in SigVals, thistarget \in TargetVals,
        thisperiod \in PeriodVals, thisdetectflag \in BOOLEAN :
       T_Tick(thisval, thistarget, thisperiod, thisdetectflag)
  /\ UNCHANGED <<scenVars, bankVars, shiftVars, dspVars, utilVars>>

\* A call that is not a tick: the pulse bookkeeping starts afresh.
T_Disturb(newtrig, opname, keepheld) ==
  /\ trig' = newtrig
  /\ t_op' = opname
  /\ t_prev' = [state |-> trig.state, count |-> trig_count_left,
                run_true |-> run_true, run_false |-> run_false,
                timeout_left |-> trig.timeout_left]
  /\ run_true' = 0
  /\ run_false' = 0
  /\ pulses_clean' = 0
  /\ held' = (keepheld /\ held)
  /\ UNCHANGED <<trig_count_left, t_out, t_in>>

T_ForceIdle ==
  /\ T_Disturb(TrigForceIdle(trig), "ForceIdle", FALSE)
  /\ UNCHANGED <<scenVars, bankVars, shiftVars, dspVars, utilVars>>

T_SetPulseDuration ==
  /\ \E d \in 0..MaxDur :
       T_Disturb(TrigSetPulseDuration(trig, d), "SetPulseDuration", TRUE)
  /\ UNCHANGED <<scenVars, bankVars, shiftVars, dspVars, utilVars>>

T_SetPulseCooldown ==
  /\ \E c \in 0..MaxCool :
       T_Disturb(TrigSetPulseCooldown(trig, c), "SetPulseCooldown", TRUE)
  /\ UNCHANGED <<scenVars, bankVars, shiftVars, dspVars, utilVars>>

T_SetReRaise ==
  /\ \E want_reraise \in BOOLEAN :
       T_Disturb(TrigSetReRaise(trig, want_reraise), "SetReRaise", FALSE)
  /\ UNCHANGED <<scenVars, bankVars, shiftVars, dspVars, utilVars>>

TrigNext ==
  \/ T_ProcessSample
  \/ T_ForceIdle
  \/ T_SetPulseDuration
  \/ T_SetPulseCooldown
  \/ T_SetReRaise

(***************************************************************************)
(* Phase-alignment scenario: duration 3, cooldown 5, reraise_ok false,     *)
(* period 100, target 50; the signal ramps 0, 10, ..., 50 over ticks 0..5  *)
(* with the detection flag asserted, and stays at or above 50 afterwards,  *)
(* the detection flag then being free.                                     *)
(***************************************************************************)
ScenMaxTick == 16

ScenarioE ==
  [duration |-> 3, cooldown |-> 5, period |-> 100, target |-> 50,
   ramp_step |-> 10, ramp_last |-> 5, late_sigs |-> {50, 60}]

ScenIdleVars ==
  /\ tick = 0
  /\ e_outs = <<>>
  /\ e_dets = <<>>

ScenInit ==
  /\ trig = TrigSetReRaise(
              TrigSetPulseCooldown(
                TrigSetPulseDuration(TrigResetState, ScenarioE.duration),
                ScenarioE.cooldown), FALSE)
  /\ trig_count_left \in 1..MaxCount
  /\ t_out = FALSE
  /\ t_op = "other"
  /\ t_in = FALSE
  /\ t_prev = [state |-> NLOOP_TSTATE_IDLE, count |-> 0,
              run_true |-> 0, run_false |-> 0, timeout_left |-> 0]
  /\ run_true = 0
  /\ run_false = 0
  /\ pulses_clean = 0
  /\ held = FALSE
  /\ tick = 0 /\ e_outs = <<>> /\ e_dets = <<>>
  /\ BankIdleVars
  /\ ShiftIdleVars
  /\ DspIdleVars
  /\ UtilIdleVars

E_Feed(thisval, thisdetectflag) ==
  /\ T_Tick(thisval, ScenarioE.target, ScenarioE.period, thisdetectflag)
  /\ UNCHANGED <<bankVars, shiftVars, dspVars, utilVars>>
  /\ tick' = tick + 1
  /\ e_outs' = Append(e_outs, t_out')
  /\ e_dets' = Append(e_dets, thisdetectflag)

\* Ticks 0..5: the ramp.
E_RampTick ==
  /\ tick <= ScenarioE.ramp_last
  /\ E_Feed(ScenarioE.ramp_step * tick, TRUE)

\* Later ticks: the signal stays at or above the target.
E_LateTick ==
  /\ tick > ScenarioE.ramp_last
  /\ tick <= ScenMaxTick
  /\ \E thisval \in ScenarioE.late_sigs, thisdetectflag \in BOOLEAN :
       E_Feed(thisval, thisdetectflag)

ScenNext ==
  \/ E_RampTick
  \/ E_LateTick

(***************************************************************************)
(* Trigger bank, streaming: the constructed bank, configured through       *)
(* SetPulseDurations, SetPulseCooldowns (one sample), SetEnableFlags (all  *)
(* cells), SetActiveBanks and SetActiveChans (the whole geometry).         *)
(***************************************************************************)
BankInit ==
  /\ \E d \in 1..MaxDur :
       triggers = [cell \in Cells |->
                     TrigSetPulseCooldown(
                       TrigSetPulseDuration(TrigResetState, d), 1)]
  /\ enabled = [cell \in Cells |-> TRUE]
  /\ trigger_count_left = 0
  /\ window_time_left = 0
  /\ banks_active = ClampActive(bankcount, bankcount)
  /\ chans_active = ClampActive(chancount, chancount)
  /\ trigsout = NoCells
  /\ BankFreshHistory
  /\ TrigIdleVars
  /\ ShiftIdleVars
  /\ DspIdleVars
  /\ UtilIdleVars
  /\ tick = 0 /\ e_outs = <<>> /\ e_dets = <<>>

(***************************************************************************)
(* Trigger bank, one triggering window with the geometry changing under    *)
(* it: the constructed bank, configured through SetPulseDurations,         *)
(* SetPulseCooldowns (one sample) and SetActiveBanks, and primed by        *)
(* EnableTriggering; no cell is enabled or active yet.                     *)
(***************************************************************************)
GeomInit ==
  /\ \E d \in 1..MaxDur :
       triggers = [cell \in Cells |->
                     TrigSetPulseCooldown(
                       TrigSetPulseDuration(TrigResetState, d), 1)]
  /\ enabled = NoCells
  /\ \E active_window_samps \in 1..MaxWindow, max_pulses_sent \in 1..MaxCount :
       /\ window_time_left = active_window_samps
       /\ trigger_count_left = max_pulses_sent
       /\ b_left = active_window_samps
       /\ b_budget = max_pulses_sent
  /\ banks_active = ClampActive(bankcount, bankcount)
  /\ chans_active = 0
  /\ trigsout = NoCells
  /\ b_op = "other"
  /\ b_queued_now = 0
  /\ b_run = ZeroCells
  /\ b_prun = ZeroCells
  /\ b_clean = NoCells
  /\ b_shut = NoCells
  /\ TrigIdleVars
  /\ ShiftIdleVars
  /\ DspIdleVars
  /\ UtilIdleVars
  /\ tick = 0 /\ e_outs = <<>> /\ e_dets = <<>>

B_ProcessSamples ==
  /\ \E inp \in BankInputs :
     \E r \in {BankProcessSamples(triggers, trigger_count_left,
                                  window_time_left, trigsout, enabled,
                                  banks_active, chans_active, inp)} :
       LET dispatched(c) == IsActive(c, banks_active, chans_active)
                            /\ enabled[c]
           entering(c) == triggers[c].state = NLOOP_TSTATE_WAITRISE
                          /\ r.triggers[c].state = NLOOP_TSTATE_WAITFALL
       IN  /\ triggers' = r.triggers
           /\ trigger_count_left' = r.count
           /\ window_time_left' = r.window
           /\ trigsout' = r.trigsout
           /\ b_left' = IF b_left > 0 THEN b_left - 1 ELSE -1
           /\ b_budget' = IF b_budget - r.queued < -1 THEN -1
                          ELSE b_budget - r.queued
           /\ b_queued_now' = r.queued
           /\ b_prun' = b_run
           /\ b_run' = [c \in Cells |->
                          IF dispatched(c) /\ r.trigsout[c]
                            THEN Min(b_run[c] + 1, MaxDur + 2) ELSE 0]
           /\ b_clean' = [c \in Cells |->
                            dispatched(c) /\ (entering(c) \/ b_clean[c])]
           /\ b_shut' = [c \in Cells |->
                           IF entering(c) THEN FALSE
                           ELSE b_shut[c]
                                \/ (triggers[c].state = NLOOP_TSTATE_WAITFALL
                                    /\ window_time_left = 0)]
  /\ b_op' = "ProcessSamples"
  /\ UNCHANGED <<enabled, banks_active, chans_active>>
  /\ UNCHANGED <<trigVars, scenVars, shiftVars, dspVars, utilVars>>

B_EnableTriggering ==
  /\ \E active_window_samps \in 0..MaxWindow, max_pulses_sent \in 0..MaxCount :
       /\ window_time_left' = active_window_samps
       /\ trigger_count_left' = max_pulses_sent
       /\ b_left' = active_window_samps
       /\ b_budget' = max_pulses_sent
  /\ b_op' = "other"
  /\ b_queued_now' = 0
  /\ b_prun' = b_run
  /\ UNCHANGED <<triggers, enabled, banks_active, chans_active, trigsout,
                 b_run, b_clean, b_shut>>
  /\ UNCHANGED <<trigVars, scenVars, shiftVars, dspVars, utilVars>>

B_DisableTriggering ==
  /\ window_time_left' = 0
  /\ trigger_count_left' = 0
  /\ b_op' = "other"
  /\ b_left' = -1
  /\ b_shut' = [c \in Cells |->
                  b_shut[c] \/ triggers[c].state = NLOOP_TSTATE_WAITFALL]
  /\ b_queued_now' = 0
  /\ b_prun' = b_run
  /\ UNCHANGED <<triggers, enabled, banks_active, chans_active, trigsout,
                 b_budget, b_run, b_clean>>
  /\ UNCHANGED <<trigVars, scenVars, shiftVars, dspVars, utilVars>>

B_ForceIdle ==
  /\ trigger_count_left' = 0
  /\ window_time_left' = 0
  /\ triggers' = BankForceIdleTriggers(triggers, banks_active, chans_active)
  /\ b_op' = "ForceIdle"
  /\ b_left' = -1
  /\ b_run' = ZeroCells
  /\ b_prun' = ZeroCells
  /\ b_clean' = NoCells
  /\ b_shut' = NoCells
  /\ b_queued_now' = 0
  /\ UNCHANGED <<enabled, banks_active, chans_active, trigsout, b_budget>>
  /\ UNCHANGED <<trigVars, scenVars, shiftVars, dspVars, utilVars>>

B_SetActiveChans ==
  /\ \E new_chans \in (-1)..(chancount + 1) :
       chans_active' = ClampActive(new_chans, chancount)
  /\ b_op' = "other"
  /\ UNCHANGED <<triggers, enabled, trigger_count_left, window_time_left,
                 banks_active, trigsout, b_left, b_budget,
                 b_run, b_clean, b_shut>>
  /\ b_queued_now' = 0
  /\ b_prun' = b_run
  /\ UNCHANGED <<trigVars, scenVars, shiftVars, dspVars, utilVars>>

B_SetOneEnableFlag ==
  /\ \E bankidx \in (-1)..bankcount, chanidx \in (-1)..chancount,
        want_enabled \in BOOLEAN :
       enabled' = IF <<bankidx, chanidx>> \in Cells
                    THEN [enabled EXCEPT ![<<bankidx, chanidx>>] = want_enabled]
                    ELSE enabled
  /\ b_op' = "other"
  /\ UNCHANGED <<triggers, trigger_count_left, window_time_left,
                 banks_active, chans_active, trigsout, b_left,
                 b_budget, b_run, b_clean, b_shut>>
  /\ b_queued_now' = 0
  /\ b_prun' = b_run
  /\ UNCHANGED <<trigVars, scenVars, shiftVars, dspVars, utilVars>>

BankNext ==
  \/ B_ProcessSamples
  \/ B_EnableTriggering
  \/ B_DisableTriggering
  \/ B_ForceIdle

GeomNext ==
  \/ B_ProcessSamples
  \/ B_DisableTriggering
  \/ B_ForceIdle
  \/ B_SetActiveChans
  \/ B_SetOneEnableFlag

(***************************************************************************)
(* Specifications.                                                         *)
(***************************************************************************)
SpecTrigger == TrigInit /\ [][TrigNext]_vars

SpecScenarioE == ScenInit /\ [][ScenNext]_vars

Spec == BankInit /\ [][BankNext]_vars

SpecBankGeometry == GeomInit /\ [][GeomNext]_vars

(***************************************************************************)
(* The shift primitives: one operand, held in unsigned storage and in      *)
(* signed storage, shifted once by each pipeline.                          *)
(***************************************************************************)
ShiftInit ==
  /\ sh_x \in ShiftVals
  /\ sh_k \in ShiftCounts
  /\ sh_promoted \in BOOLEAN
  /\ sh_safe \in BOOLEAN
  /\ sh_u = sh_x
  /\ sh_s = ToSigned(sh_x)
  /\ sh_done = {}
  /\ TrigIdleVars
  /\ ScenIdleVars
  /\ BankIdleVars
  /\ DspIdleVars
  /\ UtilIdleVars

\* The unsigned-storage pipeline: NLOOP_ARITHSHR_UNSIGNED(outval, bits).
Sh_ArithShrUnsigned ==
  /\ "unsigned" \notin sh_done
  /\ sh_u' = NLOOP_ARITHSHR_UNSIGNED(sh_u, sh_k, sh_promoted)
  /\ sh_done' = sh_done \cup {"unsigned"}
  /\ UNCHANGED <<sh_x, sh_k, sh_promoted, sh_safe, sh_s>>
  /\ UNCHANGED <<trigVars, scenVars, bankVars, dspVars, utilVars>>

\* The signed-storage pipeline: NLOOP_ARITHSHR(outval, bits).
Sh_ArithShr ==
  /\ "signed" \notin sh_done
  /\ sh_s' \in NLOOP_ARITHSHR(sh_s, sh_k, sh_safe, sh_promoted)
  /\ sh_done' = sh_done \cup {"signed"}
  /\ UNCHANGED <<sh_x, sh_k, sh_promoted, sh_safe, sh_u>>
  /\ UNCHANGED <<trigVars, scenVars, bankVars, dspVars, utilVars>>

ShiftNext ==
  \/ Sh_ArithShrUnsigned
  \/ Sh_ArithShr

SpecShift == ShiftInit /\ [][ShiftNext]_vars

(***************************************************************************)
(* Properties of the single trigger.                                       *)
(***************************************************************************)

\* C1: with duration d >= 1 and cooldown c >= 1 and no ForceIdle,
\* ResetState or setter call since the pulse began, a pulse is exactly d
\* consecutive ticks returning true (the tick that enters WaitFall
\* included), and a following pulse begins only after at least c
\* consecutive ticks returning false.
C1_PulseThenCooldown ==
  (t_op = "ProcessSample" /\ pulses_clean >= 1) =>
    /\ (t_out => run_true <= trig.trig_duration)
    /\ ((t_prev.run_true > 0 /\ ~t_out) =>
          t_prev.run_true = trig.trig_duration)
    /\ ((pulses_clean = 2 /\ t_prev.run_true = 0 /\ t_out) =>
          t_prev.run_false >= trig.trig_cooldown_time)

\* A second undisturbed pulse has just begun, with d = 2 and c = 2.
C1_Witness ==
  /\ t_op = "ProcessSample"
  /\ pulses_clean = 2
  /\ t_out /\ t_prev.run_true = 0
  /\ trig.trig_duration = 2
  /\ trig.trig_cooldown_time = 2

\* C4: a ProcessSample call never increases trigger_count_left; it lowers
\* it, by exactly one, if and only if the call performs the Idle -> WaitRise
\* transition; calls made in WaitRise, WaitFall or WaitCool leave it alone.
C4_QuotaOnlyOnQueue ==
  (t_op = "ProcessSample") =>
    /\ trig_count_left <= t_prev.count
    /\ trig_count_left >= t_prev.count - 1
    /\ (trig_count_left = t_prev.count - 1) <=>
         (t_prev.state = NLOOP_TSTATE_IDLE
          /\ trig.state = NLOOP_TSTATE_WAITRISE)
    /\ (t_prev.state # NLOOP_TSTATE_IDLE =>
          trig_count_left = t_prev.count)

\* The last call queued a pulse and used up the last unit of a quota of 2.
C4_Witness ==
  /\ t_op = "ProcessSample"
  /\ t_prev.state = NLOOP_TSTATE_IDLE
  /\ trig.state = NLOOP_TSTATE_WAITRISE
  /\ t_prev.count = 1
  /\ trig_count_left = 0

\* C5: with reraise_ok false, after a pulse the trigger stays in WaitCool,
\* emitting nothing, for as long as the detection flag is asserted on every
\* tick, also after the cooldown count has reached 0; and a tick takes it
\* from WaitCool to Idle only when the count is 0 and the flag is false.
C5_NoReRaiseWhileDetectHeld ==
  /\ held => (trig.state = NLOOP_TSTATE_WAITCOOL /\ ~t_out)
  /\ (/\ t_op = "ProcessSample"
      /\ ~trig.reraise_ok
      /\ t_prev.state = NLOOP_TSTATE_WAITCOOL
      /\ trig.state = NLOOP_TSTATE_IDLE)
       => (trig.timeout_left = 0 /\ ~t_in)

\* The cooldown has expired some ticks ago and the trigger is still cooling.
C5_Witness ==
  /\ held
  /\ t_op = "ProcessSample"
  /\ trig.timeout_left = 0
  /\ trig.state = NLOOP_TSTATE_WAITCOOL
  /\ run_false >= trig.trig_cooldown_time + 2

(***************************************************************************)
(* Properties of the phase-alignment scenario.                             *)
(***************************************************************************)

\* C6: in the scenario the trigger returns true at exactly ticks 5, 6 and
\* 7, and false at ticks 0..4 and at tick 8.
C6_PulseAtTicks567 ==
  \A k \in 0..8 :
    k < Len(e_outs) => (e_outs[k + 1] <=> (k \in {5, 6, 7}))

\* Tick 8 has been processed.
C6_Witness ==
  /\ Len(e_outs) >= 9
  /\ e_outs[6] /\ e_outs[7] /\ e_outs[8] /\ ~e_outs[9]

\* The tick whose call has just returned.
LastTick == tick - 1

\* The last call counted the cooldown down to 0.
CooldownCompleted ==
  /\ t_op = "ProcessSample"
  /\ t_prev.state = NLOOP_TSTATE_WAITCOOL
  /\ t_prev.timeout_left > 0
  /\ trig.timeout_left = 0

\* The last call queued a pulse after the first one.
ReArmed ==
  /\ t_op = "ProcessSample"
  /\ LastTick > 0
  /\ t_prev.state = NLOOP_TSTATE_IDLE
  /\ trig.state = NLOOP_TSTATE_WAITRISE

\* The detection flag was false at tick k-1 and true at tick k, with quota
\* left for tick k.
ReAssertedAt(k) ==
  /\ LastTick = k
  /\ ~e_dets[k] /\ e_dets[k + 1]
  /\ t_prev.count > 0

\* C7 as stated: the cooldown countdown completes at tick 12 and the
\* trigger can re-arm at tick 13 and no earlier.
C7_AsStated ==
  /\ CooldownCompleted => LastTick = 12
  /\ ReArmed => LastTick >= 13
  /\ ReAssertedAt(13) => ReArmed

\* C7 amended: the cooldown countdown completes at tick 13 (the tick-8 call
\* that ends the pulse only loads the countdown, and ticks 9..13 count it
\* down), and the trigger re-arms at tick 14 and no earlier.
C7_CooldownAt13ReArmAt14 ==
  /\ CooldownCompleted => LastTick = 13
  /\ ReArmed => LastTick >= 14
  /\ ReAssertedAt(14) => ReArmed

\* The trigger has re-armed at tick 14.
C7_Witness ==
  /\ ReArmed
  /\ LastTick = 14
  /\ ~e_dets[14] /\ e_dets[15]

(***************************************************************************)
(* Properties of the trigger bank.                                         *)
(***************************************************************************)

\* C2: a pulse that has begun reports true for its full duration although,
\* during the pulse, a ProcessSamples call found the window expired (and
\* forced the quota to 0) or DisableTriggering was called, as long as the
\* cell is dispatched in every call: the run of true outputs never exceeds
\* the duration and is exactly the duration when the output falls.
C2_PulseCompletesAfterClose ==
  \A c \in Cells :
    (b_clean[c] /\ b_shut[c]) =>
      /\ (trigsout[c] => b_run[c] <= triggers[c].trig_duration)
      /\ ((b_prun[c] > 0 /\ ~trigsout[c]) =>
            b_prun[c] = triggers[c].trig_duration)

\* A two-tick pulse has just ended, the window having closed under it.
C2_Witness ==
  \E c \in Cells :
    /\ b_clean[c] /\ b_shut[c]
    /\ ~trigsout[c]
    /\ b_prun[c] = 2
    /\ triggers[c].trig_duration = 2
    /\ window_time_left = 0
    /\ trigger_count_left = 0

\* C3: the Idle -> WaitRise transitions made since the last
\* EnableTriggering(window, max_pulses), over all cells and calls, never
\* exceed max_pulses: max_pulses minus their number is never negative.
C3_SharedQuota == b_budget >= 0

\* Two cells queued a pulse in the same call and used up the quota.
C3_Witness ==
  /\ b_queued_now = 2
  /\ b_budget = 0
  /\ trigger_count_left = 0
  /\ \A c \in Cells : triggers[c].state = NLOOP_TSTATE_WAITRISE

\* C8 as stated: no Idle -> WaitRise transition occurs in the W-th
\* ProcessSamples call after EnableTriggering(W, N), nor in a later one.
C8_AsStated == (b_left <= 0) => (b_queued_now = 0)

\* C8 amended: the quota is forced to 0 by the first call that finds
\* window_time_left at 0 already, which is the (W+1)-th call; up to and
\* including the W-th call the quota is whatever the pulses queued so far
\* have left of it, and from the (W+1)-th call on it is 0 and no
\* Idle -> WaitRise transition occurs.
C8_ForcedByCallAfterWindow ==
  /\ (b_left >= 0) =>
       (trigger_count_left = b_budget /\ window_time_left = b_left)
  /\ (b_left < 0) =>
       (trigger_count_left = 0 /\ window_time_left = 0 /\ b_queued_now = 0)

\* The W-th call has queued a pulse and left some quota.
C8_Witness ==
  /\ b_left = 0
  /\ window_time_left = 0
  /\ b_queued_now = 1
  /\ trigger_count_left = 1

\* C9: ForceIdle leaves every trigger of the bank, active or not, in Idle
\* with timeout_left, saved_target, prev_signal and unwrap_offset at 0 and
\* both bank counters at 0, and changes neither a trigger's duration,
\* cooldown or reraise_ok, nor the enable mask, nor the active geometry.
C9_ForceIdleFrame ==
  [][ (b_op' = "ForceIdle") =>
        /\ \A c \in Cells :
             /\ triggers'[c].state = NLOOP_TSTATE_IDLE
             /\ triggers'[c].timeout_left = 0
             /\ triggers'[c].saved_target = 0
             /\ triggers'[c].prev_signal = 0
             /\ triggers'[c].unwrap_offset = 0
             /\ triggers'[c].trig_duration = triggers[c].trig_duration
             /\ triggers'[c].trig_cooldown_time = triggers[c].trig_cooldown_time
             /\ triggers'[c].reraise_ok = triggers[c].reraise_ok
        /\ trigger_count_left' = 0
        /\ window_time_left' = 0
        /\ enabled' = enabled
        /\ banks_active' = banks_active
        /\ chans_active' = chans_active ]_vars

\* ForceIdle has reset a trigger that was asserting a pulse when its channel
\* was made inactive, the other cell being enabled.
C9_Witness ==
  /\ b_op = "ForceIdle"
  /\ \E c \in Cells :
       /\ ~IsActive(c, banks_active, chans_active)
       /\ trigsout[c]
       /\ triggers[c].state = NLOOP_TSTATE_IDLE
       /\ triggers[c].trig_duration = 2
  /\ \E c \in Cells : enabled[c]

(***************************************************************************)
(* Properties of the shift primitives.                                     *)
(***************************************************************************)

\* C10 as stated: NLOOP_ARITHSHR_UNSIGNED(x, k) yields the bit pattern of
\* floor(x / 2^k), x read as a two's-complement signed value.
C10_AsStated ==
  ("unsigned" \in sh_done) =>
    (sh_u = ToUnsigned(ToSigned(sh_x) \div (2 ^ sh_k)))

(***************************************************************************)
(* The auto-ranger: a ranger of one channel is constructed, given a        *)
(* desired range, fed samples, asked for running outputs and asked to      *)
(* latch.  ar_h records the desired range, the last operation with its     *)
(* input and output, the argument of the last LatchAfter, the number of    *)
(* UpdateFromSample calls since then and the call that took the snapshot.  *)
(***************************************************************************)
MaxLatch == 2

\* The builds: signed samples with either shift macro, unsigned samples.
ArBuilds ==
  { [signed |-> TRUE, sign_safe |-> FALSE],
    [signed |-> TRUE, sign_safe |-> TRUE],
    [signed |-> FALSE, sign_safe |-> FALSE] }

\* Endpoints offered to SetDesiredRange, and samples offered to
\* UpdateFromSample.
ArRangeEnds(signed) ==
  {NLOOP_MINVAL(signed), NLOOP_MINVAL(signed) + 3, NLOOP_MAXVAL(signed)}

ArFeedVals(signed) ==
  {NLOOP_MINVAL(signed) + 2, NLOOP_MINVAL(signed) + 6, NLOOP_MAXVAL(signed)}

ArCallCap == MaxLatch + 2

ArInit ==
  /\ \E b \in ArBuilds :
       \E newmin \in ArRangeEnds(b.signed), newmax \in ArRangeEnds(b.signed) :
         /\ newmin <= newmax
         /\ ar = ArSetDesiredRange(ArConstruct(b.signed, b.sign_safe),
                                   newmin, newmax)
         /\ ar_h = [newmin |-> newmin, newmax |-> newmax, op |-> "init",
                    in |-> 0, out |-> 0, latch_n |-> 0 - 1, since |-> 0,
                    snap_at |-> 0]
  /\ iir = Unused
  /\ iir_h = Unused
  /\ fir = Unused
  /\ avg = Unused
  /\ an = Unused
  /\ an_h = Unused
  /\ th = Unused
  /\ th_h = Unused
  /\ zs = Unused
  /\ TrigIdleVars
  /\ ScenIdleVars
  /\ BankIdleVars
  /\ ShiftIdleVars
  /\ UtilIdleVars

ArOthersUnchanged ==
  UNCHANGED <<iir, iir_h, fir, avg, an, an_h, th, th_h, zs, trigVars, scenVars, bankVars, shiftVars, utilVars>>

\* UpdateFromSample(indata).
AR_UpdateFromSample ==
  /\ \E thisval \in ArFeedVals(ar.signed) :
       \E r \in {ArUpdateFromSample(ar, thisval)} :
         \E n \in {IF ar_h.since < ArCallCap THEN ar_h.since + 1 ELSE ArCallCap} :
           /\ ar' = r
           /\ ar_h' = [ar_h EXCEPT !.op = "update", !.in = 0, !.out = 0,
                                   !.since = n,
                                   !.snap_at =
                                     IF ar.countdown_active /\ ~r.countdown_active
                                     THEN n ELSE @]
  /\ ArOthersUnchanged

\* GetRunningOutput(indata, outdata).
AR_GetRunningOutput ==
  /\ \E indata \in SampVals(ar.signed) :
       \E r \in {ArCalcOutput(ar, indata, FALSE)} :
         /\ ar' = r.ranger
         /\ ar_h' = [ar_h EXCEPT !.op = "running", !.in = indata, !.out = r.out]
  /\ ArOthersUnchanged

\* LatchAfter(sampcount).
AR_LatchAfter ==
  /\ \E sampcount \in 0 .. MaxLatch :
       /\ ar' = ArLatchAfter(ar, sampcount)
       /\ ar_h' = [ar_h EXCEPT !.op = "latch", !.in = 0, !.out = 0,
                               !.latch_n = sampcount, !.since = 0,
                               !.snap_at = 0]
  /\ ArOthersUnchanged

\* Tracking and running outputs.
ArNext ==
  \/ AR_UpdateFromSample
  \/ AR_GetRunningOutput

SpecAutoRange == ArInit /\ [][ArNext]_vars

\* Tracking and latching.
ArLatchNext ==
  \/ AR_UpdateFromSample
  \/ AR_LatchAfter

SpecAutoRangeLatch == ArInit /\ [][ArLatchNext]_vars

\* C12: a running output computed for a sample lying between the tracked
\* minimum and maximum is within [newmin - 1, newmax + 1].
C12_AsStated ==
  (ar_h.op = "running" /\ ar.minvals <= ar_h.in /\ ar_h.in <= ar.maxvals)
    => (ar_h.newmin - 1 <= ar_h.out /\ ar_h.out <= ar_h.newmax + 1)

\* C13 as stated: the snapshot is taken in the N-th UpdateFromSample call
\* after LatchAfter(N), N >= 1.
C13_AsStated ==
  (ar_h.latch_n >= 1 /\ ar_h.snap_at # 0) => ar_h.snap_at = ar_h.latch_n

\* C13: after LatchAfter(N) the snapshot is taken in the (N+1)-th
\* UpdateFromSample call, the one that finds the countdown at zero: no
\* snapshot exists through the N-th call, one taken by call N + 1 exists
\* from then on, and the latched pair is the running pair of that call.
C13_SnapshotInCallAfterCountdown ==
  ar_h.latch_n >= 0 =>
    /\ ar_h.since <= ar_h.latch_n => (ar_h.snap_at = 0 /\ ar.countdown_active)
    /\ ar_h.since > ar_h.latch_n =>
         (ar_h.snap_at = ar_h.latch_n + 1 /\ ~ar.countdown_active)
    /\ (ar_h.op = "update" /\ ar_h.since = ar_h.snap_at) =>
         /\ ar.latched_offsets = ar.running_offsets
         /\ ar.latched_attens = ar.running_attens

C13_Witness ==
  /\ ar_h.latch_n >= 1
  /\ ar_h.op = "update"
  /\ ar_h.snap_at = ar_h.latch_n + 1
  /\ ar_h.since = ar_h.snap_at
  /\ ar.latched_offsets # 0

(***************************************************************************)
(* The all-zero stream: every module is constructed, the banks are given   *)
(* a geometry, and each tick feeds the sample 0 to all of them.  zs        *)
(* records the build, the tick, whether a latch has fired, and the outputs *)
(* of the tick.                                                            *)
(***************************************************************************)
ZeroMaxTick == 9

\* samptype_t and the shift macro in use.
ZeroBuilds ==
  { [signed |-> TRUE, promoted |-> TRUE, sign_safe |-> FALSE],
    [signed |-> TRUE, promoted |-> TRUE, sign_safe |-> TRUE],
    [signed |-> FALSE, promoted |-> TRUE, sign_safe |-> FALSE],
    [signed |-> FALSE, promoted |-> FALSE, sign_safe |-> FALSE] }

\* An IIR bank as constructed: zero coefficients and buffers.
IirBankConstruct ==
  [chains |-> [c \in Cells |-> ChainConstruct],
   out |-> [c \in Cells |-> 0],
   banks_active |-> 0,
   chans_active |-> 0]

\* SetActiveBanks and SetActiveChans of the IIR and FIR banks.
IirBankSetGeometry(b, new_banks, new_chans) ==
  [b EXCEPT !.banks_active = ClampActive(new_banks, bankcount),
            !.chans_active = ClampActive(new_chans, chancount)]

FirBankSetGeometry(fb, new_banks, new_chans) ==
  [fb EXCEPT !.banks_active = ClampActive(new_banks, bankcount),
             !.chans_active = ClampActive(new_chans, chancount)]

\* The centre of the default desired range [MINVAL, MAXVAL], as
\* SetDesiredRange computes it: both ends halved by NLOOP_ARITHSHR, the
\* upper one raised to the lower one if it is below it, and added.
ZeroRangeCentre(ty) ==
  LET scratchmin == SampArithShr(NLOOP_MINVAL(ty.signed), 1, ty.signed, ty.sign_safe)
      scratchmax == SampArithShr(NLOOP_MAXVAL(ty.signed), 1, ty.signed, ty.sign_safe)
  IN StoreSamp(scratchmin + (IF scratchmax < scratchmin THEN scratchmin ELSE scratchmax),
               ty.signed)

ZeroSlice == [c \in 0 .. (chancount - 1) |-> 0]

ZeroInit ==
  /\ \E b \in ZeroBuilds :
       /\ ar = ArConstruct(b.signed, b.sign_safe)
       /\ \E new_banks \in 0 .. bankcount, new_chans \in 0 .. chancount :
            /\ \E st \in 0 .. stagecount :
                 iir = IirBankSetGeometry(
                         [IirBankConstruct EXCEPT
                            !.chains = IirBankSetActiveStages(@, st)],
                         new_banks, new_chans)
            /\ \E held_sample \in {0, NLOOP_MAXVAL(b.signed)} :
                 fir = FirBankSetGeometry(
                         FirBankConstruct([c \in 0 .. (chancount - 1) |->
                                             [i \in FirBufIdx |-> held_sample]]),
                         new_banks, new_chans)
       /\ \E held_sum \in {0, 1, NLOOP_MAXVAL(b.signed)} :
            avg = AvBankConstruct([c \in Cells |-> held_sum])
       /\ an = AnConstruct([signed |-> b.signed, promoted |-> b.promoted,
                            sbits |-> ShiftBits, ibits |-> IdxBits])
       /\ zs = [ty |-> b, tick |-> 0, snapped |-> FALSE,
                run_out |-> 0, lat_out |-> 0, fir_out |-> ZeroCells,
                avg_out |-> ZeroCells, mag |-> 0]
  /\ ar_h = Unused
  /\ iir_h = Unused
  /\ an_h = Unused
  /\ th = Unused
  /\ th_h = Unused
  /\ TrigIdleVars
  /\ ScenIdleVars
  /\ BankIdleVars
  /\ ShiftIdleVars
  /\ UtilIdleVars

ZeroOthersUnchanged ==
  UNCHANGED <<ar_h, iir_h, an_h, th, th_h, trigVars, scenVars, bankVars, shiftVars, utilVars>>

\* One tick: the sample 0 goes through every module.
Z_Tick ==
  /\ zs.tick < ZeroMaxTick
  /\ \E a1 \in {ArUpdateFromSample(ar, 0)} :
       \E run \in {ArCalcOutput(a1, 0, FALSE)} :
         \E lat \in {ArCalcOutput(run.ranger, 0, TRUE)} :
           \E i \in {IirBankApplyOnce(zs.ty, iir.chains, iir.out, iir.banks_active, iir.chans_active, ZeroSlice)} :
             \E f \in {FirApplyBankOnce(zs.ty, fir, ZeroSlice)} :
               \E v \in {AvBankUpdateAverage(zs.ty, avg, ZeroCells)} :
                 \E e \in {AnHandleSample(an, 0)} :
                   /\ ar' = lat.ranger
                   /\ iir' = [iir EXCEPT !.chains = i.chains, !.out = i.out]
                   /\ fir' = f.bank
                   /\ avg' = [c \in Cells |-> v[c].avg]
                   /\ an' = e
                   /\ zs' = [zs EXCEPT
                               !.tick = @ + 1,
                               !.snapped = @ \/ (ar.countdown_active /\ ~a1.countdown_active),
                               !.run_out = run.out,
                               !.lat_out = lat.out,
                               !.fir_out = f.out,
                               !.avg_out = [c \in Cells |-> v[c].out],
                               !.mag = AnGetEstimatedAnalytic(e).magnitude]
  /\ ZeroOthersUnchanged

\* LatchAfter(sampcount) on the auto-ranger.
Z_LatchAfter ==
  /\ \E sampcount \in 0 .. 1 : ar' = ArLatchAfter(ar, sampcount)
  /\ UNCHANGED <<iir, fir, avg, an, zs>>
  /\ ZeroOthersUnchanged

ZeroNext ==
  \/ Z_Tick
  \/ Z_LatchAfter

SpecZeroStream == ZeroInit /\ [][ZeroNext]_vars

\* What the filters, the averager and the estimator put out at a tick.
ZeroFiltersSilent ==
  /\ \A c \in Cells : IsActive(c, iir.banks_active, iir.chans_active) => iir.out[c] = 0
  /\ \A c \in Cells : zs.fir_out[c] = 0
  /\ \A c \in Cells : zs.avg_out[c] = 0
  /\ zs.mag = 0

IirMaxTick == 6

\* Coefficient sets offered to SetCoefficients: pass-through, one-sample
\* delay, and a gain of one half.
IirCoefficients ==
  { [den0_bits |-> 0, den1 |-> 0, den2 |-> 0, num0 |-> 1, num1 |-> 0, num2 |-> 0],
    [den0_bits |-> 0, den1 |-> 0, den2 |-> 0, num0 |-> 0, num1 |-> 1, num2 |-> 0],
    [den0_bits |-> 1, den1 |-> 0, den2 |-> 0, num0 |-> 1, num1 |-> 0, num2 |-> 0] }

IirSampleVals == {0, 1}

IirInit ==
  /\ \E b \in ZeroBuilds :
       /\ iir = IirBankSetGeometry(IirBankConstruct, bankcount, chancount)
       /\ iir_h = [ty |-> b, op |-> "init", stagenum |-> 0, banknum |-> 0,
                   q |-> BlankBiquad, indata |-> ZeroSlice, pass_run |-> 0,
                   tick |-> 0]
  /\ ar = Unused
  /\ ar_h = Unused
  /\ fir = Unused
  /\ avg = Unused
  /\ an = Unused
  /\ an_h = Unused
  /\ th = Unused
  /\ th_h = Unused
  /\ zs = Unused
  /\ TrigIdleVars
  /\ ScenIdleVars
  /\ BankIdleVars
  /\ ShiftIdleVars
  /\ UtilIdleVars

IirOthersUnchanged ==
  UNCHANGED <<ar, ar_h, fir, avg, an, an_h, th, th_h, zs, trigVars, scenVars, bankVars, shiftVars, utilVars>>

\* SetCoefficients(stagenum, banknum, ...).
I_SetCoefficients ==
  /\ \E stagenum \in 0 .. (stagecount - 1), banknum \in 0 .. (bankcount - 1), q \in IirCoefficients :
       /\ iir' = [iir EXCEPT !.chains = IirBankSetCoefficients(@, stagenum, banknum, q)]
       /\ iir_h' = [iir_h EXCEPT !.op = "coefficients", !.stagenum = stagenum,
                                 !.banknum = banknum, !.q = q]
  /\ IirOthersUnchanged

\* SetActiveStages(new_stages).
I_SetActiveStages ==
  /\ \E new_stages \in 0 .. stagecount :
       /\ iir' = [iir EXCEPT !.chains = IirBankSetActiveStages(@, new_stages)]
       /\ iir_h' = [iir_h EXCEPT !.op = "stages",
                                 !.pass_run = IF new_stages = 0 THEN @ ELSE 0]
  /\ IirOthersUnchanged

\* ApplyBankOnce(indata, outdata).
I_ApplyBankOnce ==
  /\ iir_h.tick < IirMaxTick
  /\ \E x \in IirSampleVals :
       \E indata \in {[c \in 0 .. (chancount - 1) |-> x]} :
         \E r \in {IirBankApplyOnce(iir_h.ty, iir.chains, iir.out, iir.banks_active, iir.chans_active, indata)} :
           /\ iir' = [iir EXCEPT !.chains = r.chains, !.out = r.out]
           /\ iir_h' = [iir_h EXCEPT
                          !.op = "apply", !.indata = indata, !.tick = @ + 1,
                          !.pass_run =
                            IF iir.chains[<<0, 0>>].stages_active = 0
                            THEN @ + 1 ELSE 0]
  /\ IirOthersUnchanged

IirNext ==
  \/ I_SetCoefficients
  \/ I_SetActiveStages
  \/ I_ApplyBankOnce

SpecIir == IirInit /\ [][IirNext]_vars

\* C14: after SetCoefficients(stage, bank, ...) every channel's chain of
\* that bank holds the new coefficients at that stage.
C14_AsStated ==
  iir_h.op = "coefficients" =>
    \A c \in 0 .. (chancount - 1) :
      iir.chains[<<iir_h.banknum, c>>].biquads[iir_h.stagenum] = iir_h.q

\* C15: with no stage active, once ApplyChainOnce has been called
\* NLOOP_IIRBIQUADCHAIN_BUFSIZE times in a row, its output is the input of
\* the same call, whatever the buffers held.
C15_PassThrough ==
  (iir_h.op = "apply" /\ iir_h.pass_run >= NLOOP_IIRBIQUADCHAIN_BUFSIZE) =>
    \A c \in Cells : iir.out[c] = iir_h.indata[c[2]]

C15_Witness ==
  /\ iir_h.op = "apply"
  /\ iir_h.pass_run > NLOOP_IIRBIQUADCHAIN_BUFSIZE
  /\ iir_h.indata[0] = 1
  /\ iir.out[<<0, 0>>] = 1
  /\ \E i \in BufIdx : iir.chains[<<0, 0>>].buffers[0][i] = 0
  /\ \E i \in BufIdx : iir.chains[<<0, 0>>].buffers[1][i] # 0

(***************************************************************************)
(* The analytic estimator on arbitrary input: an estimator is constructed, *)
(* optionally given a minimum period, and fed samples.  an_h records the   *)
(* last operation and the zero-crossing it detected.                       *)
(***************************************************************************)
\* The zero-crossing HandleSample detects on a sample, by the tests of
\* AnCrossing.
AnCrossingKind(e, sampval) ==
  LET c == AnCount(e)
      is_negative == AnIsNegative(c, AnShifted(c, sampval))
  IN IF c.since_rise_count > c.since_fall_count
     THEN IF ~is_negative /\ c.since_fall_count >= c.min_zc_gap
          THEN "rise" ELSE "none"
     ELSE IF is_negative /\ c.since_rise_count >= c.min_zc_gap
          THEN "fall" ELSE "none"

\* Samples offered to HandleSample: 0, +1 and -1 as the type holds them.
AnSampleVals(e) == {0, 1, AnStoreSamp(e, 0 - 1)}

AnInit ==
  /\ \E type \in AnTypes(ShiftBits, IdxBits) : an = AnConstruct(type)
  /\ an_h = [op |-> "init", zc |-> "none"]
  /\ ar = Unused
  /\ ar_h = Unused
  /\ iir = Unused
  /\ iir_h = Unused
  /\ fir = Unused
  /\ avg = Unused
  /\ th = Unused
  /\ th_h = Unused
  /\ zs = Unused
  /\ TrigIdleVars
  /\ ScenIdleVars
  /\ BankIdleVars
  /\ ShiftIdleVars
  /\ UtilIdleVars

AnOthersUnchanged ==
  UNCHANGED <<ar, ar_h, iir, iir_h, fir, avg, th, th_h, zs, trigVars, scenVars, bankVars, shiftVars, utilVars>>

\* HandleSample(sampval).
N_HandleSample ==
  /\ \E sampval \in AnSampleVals(an) :
       /\ an' = AnHandleSample(an, sampval)
       /\ an_h' = [op |-> "sample", zc |-> AnCrossingKind(an, sampval)]
  /\ AnOthersUnchanged

\* SetMinPeriod(newminperiod).
N_SetMinPeriod ==
  /\ \E newminperiod \in {2, 4} :
       /\ an' = AnSetMinPeriod(an, newminperiod)
       /\ an_h' = [op |-> "period", zc |-> "none"]
  /\ AnOthersUnchanged

\* ResetState().
N_ResetState ==
  /\ an' = AnResetState(an)
  /\ an_h' = [op |-> "reset", zc |-> "none"]
  /\ AnOthersUnchanged

AnNext ==
  \/ N_HandleSample
  \/ N_SetMinPeriod
  \/ N_ResetState

SpecAnalytic == AnInit /\ [][AnNext]_vars

\* C16: while min_zc_gap is MAX(I), HandleSample changes neither
\* last_period nor last_mag.
C16_AsStated ==
  [][(an_h'.op = "sample" /\ an.min_zc_gap = AnIdxMax(an))
       => (an'.last_period = an.last_period /\ an'.last_mag = an.last_mag)]_vars

\* C18: a counter that equals MAX(I) stays at MAX(I) in a HandleSample that
\* does not reset it.
C18_AsStated ==
  [][an_h'.op = "sample" =>
       /\ (an.since_rise_count = AnIdxMax(an) /\ an_h'.zc # "rise")
            => an'.since_rise_count = AnIdxMax(an)
       /\ (an.since_fall_count = AnIdxMax(an) /\ an_h'.zc # "fall")
            => an'.since_fall_count = AnIdxMax(an)]_vars

(***************************************************************************)
(* The analytic estimator on a square wave: an estimator is reset, given a *)
(* zero level and a minimum period, and fed a wave of half-period          *)
(* an_h.half and amplitude an_h.amp about the zero level.  an_h records    *)
(* the wave, the number of samples fed and of zero-crossings detected.     *)
(***************************************************************************)
MaxHalf == 3

SquareMaxTick == 24

\* Sample number i (from 0) of the wave.
SquareSample(e, h, i) ==
  LET positive == ((i \div h.half) % 2 = 0) # h.first_negative
  IN AnStoreSamp(e, IF positive THEN e.zero_level + h.amp ELSE e.zero_level - h.amp)

SquareInit ==
  /\ \E type \in AnTypes(ShiftBits, IdxBits), half \in 1 .. MaxHalf, first_negative \in BOOLEAN, newzero \in {0, 2} :
       \E newminperiod \in 0 .. (2 * half) :
         /\ an = AnSetMinPeriod(AnSetZeroLevel(AnConstruct(type), newzero),
                                newminperiod)
         /\ an_h = [op |-> "init", zc |-> "none", half |-> half, amp |-> 1,
                    first_negative |-> first_negative, n |-> 0, zcs |-> 0,
                    cap |-> SquareMaxTick]
  /\ ar = Unused
  /\ ar_h = Unused
  /\ iir = Unused
  /\ iir_h = Unused
  /\ fir = Unused
  /\ avg = Unused
  /\ th = Unused
  /\ th_h = Unused
  /\ zs = Unused
  /\ TrigIdleVars
  /\ ScenIdleVars
  /\ BankIdleVars
  /\ ShiftIdleVars
  /\ UtilIdleVars

\* HandleSample on the next sample of the wave.
Q_HandleSample ==
  /\ an_h.n < an_h.cap
  /\ \E sampval \in {SquareSample(an, an_h, an_h.n)} :
       \E kind \in {AnCrossingKind(an, sampval)} :
         /\ an' = AnHandleSample(an, sampval)
         /\ an_h' = [an_h EXCEPT !.op = "sample", !.zc = kind, !.n = @ + 1,
                                 !.zcs = IF kind = "none" THEN @ ELSE @ + 1]
  /\ AnOthersUnchanged

SquareNext == Q_HandleSample

SpecSquare == SquareInit /\ [][SquareNext]_vars

\* C17: on a square wave of period P >= 2 * min_zc_gap, once one full
\* period has been fed last_period is P, and the counters never exceed P.
C17_AsStated ==
  /\ an_h.n >= 2 * an_h.half => an.last_period = 2 * an_h.half
  /\ an.since_rise_count <= 2 * an_h.half
  /\ an.since_fall_count <= 2 * an_h.half

(***************************************************************************)
(* Scenario F: amplitude 1000, period 40, zero level 0, min_zc_gap 10,     *)
(* with 16-bit samples and 8-bit counters.                                 *)
(***************************************************************************)
ScenarioF ==
  [amp |-> 1000, period |-> 40, zero_level |-> 0, min_zc_gap |-> 10,
   sbits |-> 16, ibits |-> 8]

ScenFMaxTick == 130

ScenFInit ==
  /\ \E type \in AnTypes(ScenarioF.sbits, ScenarioF.ibits), first_negative \in BOOLEAN :
       /\ an = AnSetMinPeriod(
                 AnSetZeroLevel(AnConstruct(type), ScenarioF.zero_level),
                 2 * ScenarioF.min_zc_gap)
       /\ an_h = [op |-> "init", zc |-> "none",
                  half |-> ScenarioF.period \div 2, amp |-> ScenarioF.amp,
                  first_negative |-> first_negative, n |-> 0, zcs |-> 0,
                  cap |-> ScenFMaxTick]
  /\ ar = Unused
  /\ ar_h = Unused
  /\ iir = Unused
  /\ iir_h = Unused
  /\ fir = Unused
  /\ avg = Unused
  /\ th = Unused
  /\ th_h = Unused
  /\ zs = Unused
  /\ TrigIdleVars
  /\ ScenIdleVars
  /\ BankIdleVars
  /\ ShiftIdleVars
  /\ UtilIdleVars

SpecScenarioF == ScenFInit /\ [][SquareNext]_vars

\* C19 as stated: in scenario F, once the third zero-crossing has been
\* detected, since_rise + since_fall is 40.
C19_AsStated ==
  an_h.zcs >= 3 => an.since_rise_count + an.since_fall_count = ScenarioF.period

\* C19: in scenario F, once the third zero-crossing has been detected, the
\* live counters differ by half the period, 20: the one reset at the last
\* crossing counts the samples since it, the other is 20 ahead.
C19_CountersHalfPeriodApart ==
  an_h.zcs >= 3 =>
    \/ an.since_rise_count - an.since_fall_count = ScenarioF.period \div 2
    \/ an.since_fall_count - an.since_rise_count = ScenarioF.period \div 2

C19_Witness ==
  /\ an_h.zcs = 3
  /\ an_h.zc = "fall"
  /\ an.since_fall_count = 0
  /\ an.since_rise_count = 20
  /\ an.last_period = 40
  /\ an.last_mag = 1000

(***************************************************************************)
(* The dual-threshold detector: two single-threshold tests feed TestDual.  *)
(* Both channels get the same sample; channel 0 has the thresholds of      *)
(* scenario C, channel 1 has them either way round, so that its activate   *)
(* flag can be set without its sustain flag.  th is prev_state; th_h       *)
(* records, per cell, the output, the last tick at which activate was set  *)
(* and the last tick at which sustain was clear.                           *)
(***************************************************************************)
ScenarioC ==
  [high |-> 100, low |-> 50,
   input |-> <<0, 60, 110, 80, 40, 80, 110>>,
   expected |-> <<FALSE, FALSE, TRUE, TRUE, FALSE, FALSE, TRUE>>]

DualMaxTick == 7

DualSampleVals == {ScenarioC.input[i] : i \in 1 .. Len(ScenarioC.input)}

DualInit ==
  /\ th = DualResetState
  /\ \E swapped \in BOOLEAN :
       th_h = [op |-> "reset",
               activate_at |-> [c \in Cells |->
                                  IF c[2] = 1 /\ swapped THEN ScenarioC.low
                                  ELSE ScenarioC.high],
               sustain_at |-> [c \in Cells |->
                                 IF c[2] = 1 /\ swapped THEN ScenarioC.high
                                 ELSE ScenarioC.low],
               tick |-> 0, out |-> NoCells, last_activate |-> ZeroCells,
               last_break |-> ZeroCells, as_scenario |-> TRUE]
  /\ ar = Unused
  /\ ar_h = Unused
  /\ iir = Unused
  /\ iir_h = Unused
  /\ fir = Unused
  /\ avg = Unused
  /\ an = Unused
  /\ an_h = Unused
  /\ zs = Unused
  /\ TrigIdleVars
  /\ ScenIdleVars
  /\ BankIdleVars
  /\ ShiftIdleVars
  /\ UtilIdleVars

DualOthersUnchanged ==
  UNCHANGED <<ar, ar_h, iir, iir_h, fir, avg, an, an_h, zs, trigVars, scenVars, bankVars, shiftVars, utilVars>>

\* One tick: TestSamples against either threshold slice, then TestDual.
D_TestDual ==
  /\ th_h.tick < DualMaxTick
  /\ \E x \in DualSampleVals :
       \E indata \in {[c \in Cells |-> x]} :
         \E flag_activate \in {TestSamples(indata, th_h.activate_at)} :
           \E flag_sustain \in {TestSamples(indata, th_h.sustain_at)} :
             \E outflag \in {TestDual(th, flag_activate, flag_sustain)} :
               /\ th' = outflag
               /\ th_h' = [th_h EXCEPT
                             !.op = "test",
                             !.tick = @ + 1,
                             !.out = outflag,
                             !.last_activate =
                               [c \in Cells |-> IF flag_activate[c] THEN th_h.tick + 1 ELSE @[c]],
                             !.last_break =
                               [c \in Cells |-> IF flag_sustain[c] THEN @[c] ELSE th_h.tick + 1],
                             !.as_scenario =
                               /\ @
                               /\ th_h.tick + 1 <= Len(ScenarioC.input)
                               /\ x = ScenarioC.input[th_h.tick + 1]]
  /\ DualOthersUnchanged

\* ResetState().
D_ResetState ==
  /\ th_h.tick > 0
  /\ th' = DualResetState
  /\ th_h' = [th_h EXCEPT !.op = "reset", !.tick = 0, !.out = NoCells,
                          !.last_activate = ZeroCells,
                          !.last_break = ZeroCells, !.as_scenario = TRUE]
  /\ DualOthersUnchanged

DualNext ==
  \/ D_TestDual
  \/ D_ResetState

SpecDual == DualInit /\ [][DualNext]_vars

\* C20: after ResetState, at every tick and for every cell the output is
\* true iff activate was true at some tick j <= now and sustain has been
\* true at every tick after j (such a j exists iff the last tick with
\* activate set is one: no tick with sustain clear follows it); on the input
\* of scenario C, with thresholds 100 and 50, the outputs are
\* F, F, T, T, F, F, T.
C20_Hysteresis ==
  th_h.op = "test" =>
    /\ \A c \in Cells :
         th_h.out[c] <=>
           \E j \in 1 .. th_h.tick :
             /\ j = th_h.last_activate[c]
             /\ th_h.last_break[c] <= j
    /\ (th_h.as_scenario /\ th_h.tick <= Len(ScenarioC.expected)) =>
         th_h.out[<<0, 0>>] = ScenarioC.expected[th_h.tick]
    /\ th = th_h.out

C20_Witness ==
  /\ th_h.op = "test"
  /\ th_h.as_scenario
  /\ th_h.tick = Len(ScenarioC.input)
  /\ th_h.out[<<0, 0>>]
  /\ th_h.last_activate[<<0, 0>>] = th_h.tick
  /\ th_h.last_break[<<0, 0>>] = 5
  /\ th_h.activate_at[<<0, 1>>] = ScenarioC.low

(***************************************************************************)
(* The de-glitcher.  The class has no constructor, so a new de-glitcher    *)
(* holds indeterminate fields until SetDelays is called.  dg_h records the *)
(* last operation, whether SetDelays has been called, whether the last     *)
(* call was ProcessSample(true), the length of the current run of true     *)
(* inputs that began with the output low (0: no such run), the length of   *)
(* the current run of false inputs that began with the output high (0: no  *)
(* such run) and the progress through the input of scenario D (-1: the     *)
(* calls are not a prefix of the scenario).                                *)
(***************************************************************************)
ScenarioD ==
  [rise_delay |-> 2, fall_delay |-> 3,
   input |-> <<TRUE, TRUE, FALSE, TRUE, TRUE, TRUE, TRUE,
               FALSE, FALSE, FALSE, FALSE, TRUE>>,
   expected |-> <<FALSE, FALSE, FALSE, FALSE, FALSE, TRUE, TRUE,
                  TRUE, TRUE, TRUE, FALSE, FALSE>>]

DgRunCap == MaxDelay + 2

DgInit ==
  /\ \E r \in DelayVals, f \in DelayVals, rc \in DelayVals, fc \in DelayVals, o \in BOOLEAN :
       dg = [rise_delay |-> r, fall_delay |-> f, rise_countdown |-> rc,
             fall_countdown |-> fc, last_output |-> o]
  /\ dg_h = [op |-> "init", configured |-> FALSE, in_run |-> FALSE,
             low_run |-> 0, high_run |-> 0, scen |-> 0 - 1]
  /\ lut = Unused
  /\ lut_h = Unused
  /\ fm = Unused
  /\ ref = Unused
  /\ fir_h = Unused
  /\ avg_h = Unused
  /\ saw = Unused
  /\ DspIdleVars
  /\ TrigIdleVars
  /\ ScenIdleVars
  /\ BankIdleVars
  /\ ShiftIdleVars

DgOthersUnchanged ==
  UNCHANGED <<lut, lut_h, fm, ref, fir_h, avg_h, saw, dspVars, trigVars, scenVars, bankVars, shiftVars>>

\* SetDelays(new_rise_delay, new_fall_delay).
G_SetDelays ==
  /\ \E r \in DelayVals, f \in DelayVals :
       /\ dg' = DgSetDelays(dg, r, f)
       /\ dg_h' = [op |-> "SetDelays", configured |-> TRUE, in_run |-> FALSE,
                   low_run |-> 0, high_run |-> 0,
                   scen |-> IF r = ScenarioD.rise_delay /\ f = ScenarioD.fall_delay
                              THEN 0 ELSE 0 - 1]
  /\ DgOthersUnchanged

\* ProcessSample(indata).
G_ProcessSample ==
  /\ \E indata \in BOOLEAN :
       /\ dg' = DgProcessSample(dg, indata)
       /\ dg_h' = [dg_h EXCEPT
            !.op = "ProcessSample",
            !.in_run = indata,
            !.low_run = IF ~indata \/ ~dg_h.configured THEN 0
                        ELSE IF dg_h.in_run
                               THEN IF dg_h.low_run = 0 THEN 0
                                    ELSE IF dg_h.low_run < DgRunCap
                                           THEN dg_h.low_run + 1 ELSE DgRunCap
                               ELSE IF ~dg.last_output THEN 1 ELSE 0,
            !.high_run = IF indata \/ ~dg_h.configured THEN 0
                         ELSE IF dg_h.high_run >= 1
                                THEN IF dg_h.high_run < DgRunCap
                                       THEN dg_h.high_run + 1 ELSE DgRunCap
                                ELSE IF dg.last_output THEN 1 ELSE 0,
            !.scen = IF dg_h.scen >= 0 /\ dg_h.scen < Len(ScenarioD.input)
                        /\ indata = ScenarioD.input[dg_h.scen + 1]
                       THEN dg_h.scen + 1 ELSE 0 - 1]
  /\ DgOthersUnchanged

DgNext ==
  \/ G_SetDelays
  \/ G_ProcessSample

SpecDeGlitch == DgInit /\ [][DgNext]_vars

\* C21: scenario D: after SetDelays(2, 3) the k-th output for the scenario's
\* input is the k-th expected value F, F, F, F, F, T, T, T, T, T, F, F.
C21_AsStated ==
  dg_h.scen >= 1 => dg.last_output = ScenarioD.expected[dg_h.scen]

\* C29: right after SetDelays(r, f) both countdowns hold their delays and the
\* output is false.
C29_AsStated ==
  dg_h.op = "SetDelays" =>
    /\ dg.rise_countdown = dg.rise_delay
    /\ dg.fall_countdown = dg.fall_delay
    /\ ~dg.last_output

\* C30: once SetDelays has been called, during a run of true inputs that
\* began with the output low the output is false up to the r-th input and
\* true on the (r+1)-th.
C30_AsStated ==
  (dg_h.op = "ProcessSample" /\ dg_h.low_run >= 1) =>
    /\ dg_h.low_run <= dg.rise_delay => ~dg.last_output
    /\ dg_h.low_run = dg.rise_delay + 1 => dg.last_output

(***************************************************************************)
(* The stepwise lookup table.  lut_h records the last operation and, for a *)
(* lookup, its argument and the value returned.                            *)
(***************************************************************************)
LutInit ==
  /\ lut = LutConstruct
  /\ lut_h = [op |-> "init", inval |-> 0, outval |-> 0]
  /\ dg = Unused
  /\ dg_h = Unused
  /\ fm = Unused
  /\ ref = Unused
  /\ fir_h = Unused
  /\ avg_h = Unused
  /\ saw = Unused
  /\ DspIdleVars
  /\ TrigIdleVars
  /\ ScenIdleVars
  /\ BankIdleVars
  /\ ShiftIdleVars

LutOthersUnchanged ==
  UNCHANGED <<dg, dg_h, fm, ref, fir_h, avg_h, saw, dspVars, trigVars, scenVars, bankVars, shiftVars>>

\* SetEntry(rowidx, inval, outval), row indices outside the table included.
L_SetEntry ==
  /\ \E rowidx \in (0 - 1) .. rowcount, inval \in LutInVals, outval \in LutOutVals :
       lut' = LutSetEntry(lut, rowidx, inval, outval)
  /\ lut_h' = [op |-> "SetEntry", inval |-> 0, outval |-> 0]
  /\ LutOthersUnchanged

\* SetActiveRows(new_rows), counts outside 0 .. rowcount included.
L_SetActiveRows ==
  /\ \E new_rows \in (0 - 1) .. (rowcount + 1) :
       lut' = LutSetActiveRows(lut, new_rows)
  /\ lut_h' = [op |-> "SetActiveRows", inval |-> 0, outval |-> 0]
  /\ LutOthersUnchanged

\* BlankTable().
L_BlankTable ==
  /\ lut' = LutBlankTable(lut)
  /\ lut_h' = [op |-> "BlankTable", inval |-> 0, outval |-> 0]
  /\ LutOthersUnchanged

\* Lookup_LE(inval).
L_Lookup_LE ==
  /\ \E inval \in LutInVals :
       lut_h' = [op |-> "Lookup_LE", inval |-> inval,
                 outval |-> Lookup_LE(lut, inval)]
  /\ UNCHANGED lut
  /\ LutOthersUnchanged

\* Lookup_GE(inval).
L_Lookup_GE ==
  /\ \E inval \in LutInVals :
       lut_h' = [op |-> "Lookup_GE", inval |-> inval,
                 outval |-> Lookup_GE(lut, inval)]
  /\ UNCHANGED lut
  /\ LutOthersUnchanged

LutNext ==
  \/ L_SetEntry
  \/ L_SetActiveRows
  \/ L_BlankTable
  \/ L_Lookup_LE
  \/ L_Lookup_GE

SpecLut == LutInit /\ [][LutNext]_vars

\* The active rows whose input is <= v (le) or >= v.
LutMatching(le, v) ==
  {r \in LutRows : /\ r < lut.rows_active
                   /\ IF le THEN lut.input_lut[r] <= v ELSE lut.input_lut[r] >= v}

\* The output of the matching row of smallest index, 0 if there is none.
LutFirstMatch(le, v) ==
  IF LutMatching(le, v) = {} THEN 0
  ELSE lut.output_lut[CHOOSE r \in LutMatching(le, v) :
                        \A q \in LutMatching(le, v) : r <= q]

\* C22: Lookup_LE(v) returns the output of the active row of smallest index
\* whose input is <= v, Lookup_GE(v) the same with >= v, and 0 when no active
\* row matches; rows at index >= rows_active play no part.
C22_FirstMatchingActiveRow ==
  /\ lut_h.op = "Lookup_LE" => lut_h.outval = LutFirstMatch(TRUE, lut_h.inval)
  /\ lut_h.op = "Lookup_GE" => lut_h.outval = LutFirstMatch(FALSE, lut_h.inval)

\* A lookup whose first row does not match, whose second row does and is
\* returned, and whose third row matches with another output but is inactive.
C22_Witness ==
  /\ lut_h.op = "Lookup_LE"
  /\ lut.rows_active = 2
  /\ lut.input_lut[0] > lut_h.inval
  /\ lut.input_lut[1] <= lut_h.inval
  /\ lut.input_lut[2] <= lut_h.inval
  /\ lut.output_lut[1] # 0
  /\ lut.output_lut[2] # lut.output_lut[1]
  /\ lut_h.outval = lut.output_lut[1]

(***************************************************************************)
(* Fast modulo.  fm holds the instantiation's subcount, the arguments of   *)
(* the call and, once it is made, the value it returned.                   *)
(***************************************************************************)
FmInit ==
  /\ \E subcount \in 0 .. MaxSubcount, sample \in ShiftVals, modulus \in ShiftVals :
       fm = [subcount |-> subcount, sample |-> sample, modulus |-> modulus,
             result |-> 0, called |-> FALSE]
  /\ dg = Unused
  /\ dg_h = Unused
  /\ lut = Unused
  /\ lut_h = Unused
  /\ ref = Unused
  /\ fir_h = Unused
  /\ avg_h = Unused
  /\ saw = Unused
  /\ DspIdleVars
  /\ TrigIdleVars
  /\ ScenIdleVars
  /\ BankIdleVars
  /\ ShiftIdleVars

\* nloop_FastModulo<datatype_t, subcount>(sample, modulus).
F_FastModulo ==
  /\ ~fm.called
  /\ fm' = [fm EXCEPT !.result = nloop_FastModulo(fm.subcount, fm.sample, fm.modulus),
                      !.called = TRUE]
  /\ UNCHANGED <<dg, dg_h, lut, lut_h, ref, fir_h, avg_h, saw, dspVars, trigVars, scenVars, bankVars, shiftVars>>

FmNext == F_FastModulo

SpecFastModulo == FmInit /\ [][FmNext]_vars

\* The claim's conditions: modulus > 0, quotient < 2^subcount, and modulus
\* shifted left by subcount-1 fits datatype_t.
FmInContract ==
  /\ fm.called
  /\ fm.modulus > 0
  /\ fm.sample < fm.modulus * 2 ^ fm.subcount
  /\ fm.subcount >= 1 => fm.modulus * 2 ^ (fm.subcount - 1) < ShiftMod

\* C23: for a non-negative sample, modulus > 0 and quotient < 2^subcount,
\* with modulus << (subcount-1) representable, nloop_FastModulo returns
\* sample mod modulus.
C23_FastModulo ==
  FmInContract => fm.result = fm.sample % fm.modulus

\* A call in which every step of the loop subtracts: 11 mod 3 with subcount 2.
C23_Witness ==
  /\ FmInContract
  /\ fm.subcount = 2
  /\ fm.modulus = 3
  /\ fm.sample = 11
  /\ fm.result = 2

(***************************************************************************)
(* A biquad chain of RefStagecount stages beside a reference cascade of    *)
(* Direct Form I biquads with explicit histories.  ref holds the build,    *)
(* the chain, the histories hist[s] = (x1, x2, y1, y2) of the reference    *)
(* stages, the number of ticks and the two outputs of the last tick.  The  *)
(* chain is configured before the first tick: coefficients by              *)
(* SetCoefficients and n >= 1 active stages by SetActiveStages.            *)
(***************************************************************************)
RefStagecount == 2

RefMaxTick == 6

\* Coefficient sets, as written (signed); stored in samptype_t by RefInit.
RefCoefficients ==
  { [den0_bits |-> 1, den1 |-> 0 - 1, den2 |-> 1, num0 |-> 1, num1 |-> 2, num2 |-> 1],
    [den0_bits |-> 0, den1 |-> 1, den2 |-> 0 - 1, num0 |-> 1, num1 |-> 0, num2 |-> 0 - 1],
    [den0_bits |-> 0, den1 |-> 0, den2 |-> 0, num0 |-> 0, num1 |-> 0, num2 |-> 1] }

RefSampleVals == {0, 1, 0 - 2}

RefStoreBiquad(ty, q) ==
  [den0_bits |-> q.den0_bits,
   den1 |-> StoreSamp(q.den1, ty.signed), den2 |-> StoreSamp(q.den2, ty.signed),
   num0 |-> StoreSamp(q.num0, ty.signed), num1 |-> StoreSamp(q.num1, ty.signed),
   num2 |-> StoreSamp(q.num2, ty.signed)]

\* One reference stage: y[n] from x[n] and the four histories, the sum taken
\* exactly and reduced to the sample type once, then shifted by a0_bits with
\* the build's signedness-aware shift.
RefStageOutput(ty, q, h, x) ==
  BiquadShift(ty,
              StoreSamp(q.num0 * x + q.num1 * h.x1 + q.num2 * h.x2
                          - q.den1 * h.y1 - q.den2 * h.y2, ty.signed),
              q.den0_bits)

\* The reference cascade of n stages from stage sidx on, fed x: the new
\* histories and the output of the last stage.
RECURSIVE RefCascade(_, _, _, _, _, _)
RefCascade(ty, qs, hist, n, sidx, x) ==
  IF sidx >= n THEN [hist |-> hist, out |-> x]
  ELSE LET y == RefStageOutput(ty, qs[sidx], hist[sidx], x)
       IN RefCascade(ty, qs,
                     [hist EXCEPT ![sidx] = [x1 |-> x, x2 |-> hist[sidx].x1,
                                             y1 |-> y, y2 |-> hist[sidx].y1]],
                     n, sidx + 1, y)

RefInit ==
  /\ \E ty \in ZeroBuilds, n \in 1 .. RefStagecount, q0 \in RefCoefficients, q1 \in RefCoefficients :
       ref = [ty |-> ty,
              chain |-> [biquads |-> [s \in 0 .. (RefStagecount - 1) |->
                                        RefStoreBiquad(ty, IF s = 0 THEN q0 ELSE q1)],
                         buffers |-> [s \in 0 .. RefStagecount |-> [i \in BufIdx |-> 0]],
                         bufptr |-> 0,
                         stages_active |-> n],
              hist |-> [s \in 0 .. (RefStagecount - 1) |->
                          [x1 |-> 0, x2 |-> 0, y1 |-> 0, y2 |-> 0]],
              tick |-> 0, outdata |-> 0, refout |-> 0]
  /\ dg = Unused
  /\ dg_h = Unused
  /\ lut = Unused
  /\ lut_h = Unused
  /\ fm = Unused
  /\ fir_h = Unused
  /\ avg_h = Unused
  /\ saw = Unused
  /\ DspIdleVars
  /\ TrigIdleVars
  /\ ScenIdleVars
  /\ BankIdleVars
  /\ ShiftIdleVars

\* ApplyChainOnce(indata, outdata), and one step of the reference cascade on
\* the same sample.
R_ApplyChainOnce ==
  /\ ref.tick < RefMaxTick
  /\ \E x \in RefSampleVals :
       \E indata \in {StoreSamp(x, ref.ty.signed)} :
         \E r \in {ApplyChainOnce(ref.ty, ref.chain, indata)} :
           \E c \in {RefCascade(ref.ty, ref.chain.biquads, ref.hist,
                                ref.chain.stages_active, 0, indata)} :
             ref' = [ref EXCEPT !.chain = r.chain, !.outdata = r.outdata,
                                !.hist = c.hist, !.refout = c.out,
                                !.tick = @ + 1]
  /\ UNCHANGED <<dg, dg_h, lut, lut_h, fm, fir_h, avg_h, saw, dspVars, trigVars, scenVars, bankVars, shiftVars>>

RefNext == R_ApplyChainOnce

SpecIirRef == RefInit /\ [][RefNext]_vars

\* The buffer slot k steps behind the next write position.
RefBack(buf, k) ==
  buf[(ref.chain.bufptr + NLOOP_IIRBIQUADCHAIN_BUFSIZE - k) % NLOOP_IIRBIQUADCHAIN_BUFSIZE]

\* C24: at every tick the chain's output equals the reference cascade's, and
\* the circular buffers hold, one and two slots behind bufptr, the two previous
\* inputs and outputs of every active stage.
C24_ChainEqualsReference ==
  /\ ref.tick >= 1 => ref.outdata = ref.refout
  /\ \A s \in 0 .. (ref.chain.stages_active - 1) :
       /\ RefBack(ref.chain.buffers[s], 1) = ref.hist[s].x1
       /\ RefBack(ref.chain.buffers[s], 2) = ref.hist[s].x2
       /\ RefBack(ref.chain.buffers[s + 1], 1) = ref.hist[s].y1
       /\ RefBack(ref.chain.buffers[s + 1], 2) = ref.hist[s].y2

\* Two active stages with feedback, past the wrap of bufptr, with a nonzero
\* output that depends on nonzero output histories of the second stage.
C24_Witness ==
  /\ ref.tick = RefMaxTick
  /\ ref.chain.stages_active = 2
  /\ ref.chain.biquads[0].den0_bits = 1
  /\ ref.chain.biquads[1].den1 # 0
  /\ ref.chain.biquads[1].den2 # 0
  /\ ref.hist[1].y2 # 0
  /\ ref.hist[1].y1 # ref.hist[1].y2
  /\ ref.outdata # 0
  /\ ref.outdata = ref.refout

(***************************************************************************)
(* The FIR bank.  The constructor leaves the input buffers as they are, so *)
(* a new bank holds indeterminate samples.  fir_h records the build, the   *)
(* last operation, the number of ApplyBankOnce calls, the output slice if  *)
(* the last call was ApplyBankOnce and, per channel, the samples written   *)
(* by the latest                                                           *)
(* consecutive calls, oldest first, at most maxcoeffs of them (empty once  *)
(* a call has not written the channel).                                    *)
(***************************************************************************)
FirMaxTick == 5

FirBuilds ==
  { [signed |-> TRUE, promoted |-> TRUE, sign_safe |-> FALSE],
    [signed |-> TRUE, promoted |-> TRUE, sign_safe |-> TRUE],
    [signed |-> FALSE, promoted |-> TRUE, sign_safe |-> FALSE] }

\* What the unwritten buffers may hold.
FirStaleVals == {0, 7}

\* The coefficient slice offered to SetBankCoefficients, as written
\* (signed): 2 on the first coefficient, -1 on the others.
FirCoeffSlices ==
  { [i \in 0 .. (maxcoeffs - 1) |-> IF i = 0 THEN 2 ELSE 0 - 1] }

\* The input stream, as written (signed): the slice of call t holds t + 1 on
\* channel 0 and -(t + 2) on the other channels, so that no two samples of
\* a run are equal.
FirSample(t, c) == IF c = 0 THEN t + 1 ELSE 0 - (t + 2)

FirInit ==
  /\ \E ty \in FirBuilds, g \in FirStaleVals :
       /\ fir = FirBankConstruct([c \in 0 .. (chancount - 1) |-> [i \in FirBufIdx |-> g]])
       /\ fir_h = [ty |-> ty, op |-> "init", tick |-> 0,
                   out |-> [c \in Cells |-> 0],
                   recent |-> [c \in 0 .. (chancount - 1) |-> <<>>]]
  /\ ar = Unused
  /\ ar_h = Unused
  /\ iir = Unused
  /\ iir_h = Unused
  /\ avg = Unused
  /\ an = Unused
  /\ an_h = Unused
  /\ th = Unused
  /\ th_h = Unused
  /\ zs = Unused
  /\ dg = Unused
  /\ dg_h = Unused
  /\ lut = Unused
  /\ lut_h = Unused
  /\ fm = Unused
  /\ ref = Unused
  /\ avg_h = Unused
  /\ saw = Unused
  /\ TrigIdleVars
  /\ ScenIdleVars
  /\ BankIdleVars
  /\ ShiftIdleVars

FirOthersUnchanged ==
  UNCHANGED <<ar, ar_h, iir, iir_h, avg, an, an_h, th, th_h, zs, dg, dg_h, lut, lut_h, fm, ref, avg_h, saw, trigVars, scenVars, bankVars, shiftVars>>

\* SetBankCoefficients(banknum, newbits, newcoeffcount, newcoeffs).
F_SetBankCoefficients ==
  /\ \E banknum \in 0 .. (bankcount - 1), newbits \in 0 .. 1, newcoeffcount \in 0 .. (maxcoeffs + 1), newcoeffs \in FirCoeffSlices :
       fir' = FirSetBankCoefficients(fir, banknum, newbits, newcoeffcount,
                [i \in 0 .. (maxcoeffs - 1) |-> StoreSamp(newcoeffs[i], fir_h.ty.signed)])
  /\ fir_h' = [fir_h EXCEPT !.op = "configure", !.out = [c \in Cells |-> 0]]
  /\ FirOthersUnchanged

\* SetActiveChans(new_chans).
F_SetActiveChans ==
  /\ \E new_chans \in 0 .. (chancount + 1) : fir' = FirSetActiveChans(fir, new_chans)
  /\ fir_h' = [fir_h EXCEPT !.op = "configure", !.out = [c \in Cells |-> 0]]
  /\ FirOthersUnchanged

\* SetActiveBanks(new_banks).
F_SetActiveBanks ==
  /\ \E new_banks \in 0 .. (bankcount + 1) : fir' = FirSetActiveBanks(fir, new_banks)
  /\ fir_h' = [fir_h EXCEPT !.op = "configure", !.out = [c \in Cells |-> 0]]
  /\ FirOthersUnchanged

\* The last up to maxcoeffs elements of s followed by x.
FirPush(s, x) ==
  IF Len(s) < maxcoeffs THEN Append(s, x) ELSE Append(Tail(s), x)

\* ApplyBankOnce(indata, outdata).
F_ApplyBankOnce ==
  /\ fir_h.tick < FirMaxTick
  /\ \E indata \in {[c \in 0 .. (chancount - 1) |->
                         StoreSamp(FirSample(fir_h.tick, c), fir_h.ty.signed)]} :
         \E r \in {FirApplyBankOnce(fir_h.ty, fir, indata)} :
           /\ fir' = r.bank
           /\ fir_h' = [fir_h EXCEPT
                !.op = "apply", !.tick = @ + 1, !.out = r.out,
                !.recent = [c \in 0 .. (chancount - 1) |->
                              IF c < fir.chans_active
                                THEN FirPush(fir_h.recent[c], indata[c])
                                ELSE <<>>]]
  /\ FirOthersUnchanged

FirNext ==
  \/ F_SetBankCoefficients
  \/ F_SetActiveChans
  \/ F_SetActiveBanks
  \/ F_ApplyBankOnce

SpecFir == FirInit /\ [][FirNext]_vars

\* Sum over k = from .. n-1 of coeffs[k] * xs[Len(xs) - n + 1 + k]: coeffs[0]
\* on the oldest of the last n samples, coeffs[n-1] on the newest.
RECURSIVE FirWindowSum(_, _, _, _)
FirWindowSum(coeffs, xs, n, from) ==
  IF from >= n THEN 0
  ELSE coeffs[from] * xs[Len(xs) - n + 1 + from]
         + FirWindowSum(coeffs, xs, n, from + 1)

\* The sum of cell c in the sample type, when the last call was
\* ApplyBankOnce, the cell is active and its channel was written by each of
\* the last coeffcount calls.
FirWindowed(c) ==
  /\ fir_h.op = "apply"
  /\ IsActive(c, fir.banks_active, fir.chans_active)
  /\ Len(fir_h.recent[c[2]]) >= fir.firs[c[1]].coeffcount

FirWindowTotal(c) ==
  StoreSamp(FirWindowSum(fir.firs[c[1]].coeffs, fir_h.recent[c[2]],
                         fir.firs[c[1]].coeffcount, 0),
            fir_h.ty.signed)

\* C25: the output of an active cell is the sum of coeffs[k] times the k-th
\* oldest of the last coeffcount samples of its channel, the sample of this
\* call being the newest, shifted right by fracbits.
C25_WindowOfLatestSamples ==
  \A c \in Cells :
    FirWindowed(c) =>
      fir_h.out[c] = SampArithShr(FirWindowTotal(c), fir.firs[c[1]].fracbits,
                                  fir_h.ty.signed, fir_h.ty.sign_safe)

\* Two coefficients over a window that wraps from the last buffer slot to
\* the first, on the second channel, with different samples in the window
\* and a nonzero output.
C25_Witness ==
  /\ FirWindowed(<<0, 1>>)
  /\ fir_h.tick = buflen + 1
  /\ fir.bufptr = 1
  /\ fir.firs[0].coeffcount = 2
  /\ fir.firs[0].coeffs[0] # fir.firs[0].coeffs[1]
  /\ fir.firs[0].coeffs[1] # 0
  /\ fir_h.recent[1][1] # fir_h.recent[1][2]
  /\ fir_h.recent[0] # fir_h.recent[1]
  /\ fir_h.out[<<0, 1>>] # 0

\* asr_u of spec section 4.1 on the unsigned storage: negate a value that is
\* negative as two's complement, shift right logically, negate again.
AsrU(x, k) ==
  IF x >= ShiftMod \div 2
    THEN (ShiftMod - ((ShiftMod - x) \div (2 ^ k))) % ShiftMod
    ELSE x \div (2 ^ k)

\* C26: for an unsigned sample type, when the accumulated sum is negative as
\* a two's-complement value the output is asr_u(sum, fracbits).
C26_AsStated ==
  \A c \in Cells :
    (FirWindowed(c) /\ ~fir_h.ty.signed /\ FirWindowTotal(c) >= ShiftMod \div 2) =>
      fir_h.out[c] = AsrU(FirWindowTotal(c), fir.firs[c[1]].fracbits)


(***************************************************************************)
(* The running attenuation and offset of the auto-ranger.                  *)
(***************************************************************************)
\* The tracked bounds as RecalcAttenOffset reads them: the maximum is raised
\* to the minimum when no sample was tracked, and both are halved with the
\* build's arithmetic shift.
ArMinHalf(a) == SampArithShr(a.minvals, 1, a.signed, a.sign_safe)

ArMaxHalf(a) ==
  SampArithShr(IF a.maxvals < a.minvals THEN a.minvals ELSE a.maxvals, 1,
               a.signed, a.sign_safe)

\* atten is the smallest count >= 0 with halfspan >> atten <= wanted.
ArLeastAtten(halfspan, wanted, atten) ==
  /\ atten >= 0
  /\ SampShr(halfspan, atten) <= wanted
  /\ \A k \in 0 .. atten - 1 : SampShr(halfspan, k) > wanted

\* The worked example of scenario B on 16-bit signed samples: desired range
\* [-1000, 1000], tracked samples -8000 and 8000, input 4000.  No value of
\* the example leaves the 16-bit range, so the stores keep every value.
ScenarioB ==
  [newmin |-> 0 - 1000, newmax |-> 1000, minval |-> 0 - 8000,
   maxval |-> 8000, indata |-> 4000,
   atten_bits |-> 3, offset |-> 0, output |-> 500]

\* NLOOP_ARITHSHR on a signed operand whose negation does not overflow: the
\* native shift, or under NLOOP_SIGN_SAFE_SHIFT negate, shift, negate.
WideArithShr(s, k, sign_safe) ==
  IF ~sign_safe \/ s >= 0
  THEN s \div (2 ^ k)
  ELSE 0 - ((0 - s) \div (2 ^ k))

\* SetDesiredRange, UpdateFromSample twice and GetRunningOutput on the
\* example's values.
ScenarioBRun(sign_safe) ==
  LET scratchmin == WideArithShr(ScenarioB.newmin, 1, sign_safe)
      scratchmax == WideArithShr(ScenarioB.newmax, 1, sign_safe)
      thismin == WideArithShr(ScenarioB.minval, 1, sign_safe)
      thismax == WideArithShr(ScenarioB.maxval, 1, sign_safe)
      thisatten == ArAttenLoop(thismax - thismin, scratchmax - scratchmin, 0)
      thisoset == (scratchmin + scratchmax)
                    - WideArithShr(thismin + thismax, thisatten, sign_safe)
  IN [atten_bits |-> thisatten, offset |-> thisoset,
      output |-> SampShr(ScenarioB.indata, thisatten) + thisoset]

\* C27: after a running output is computed, the running attenuation is the
\* smallest atten_bits >= 0 with (max_half - min_half) >> atten_bits <=
\* half_span_wanted, the running offset is middle_wanted - ((min_half +
\* max_half) >> atten_bits), and the worked example on 16-bit samples gives
\* atten_bits 3, offset 0 and output 500.
C27_LeastAttenAndOffset ==
  /\ ar_h.op = "running" =>
       /\ ArLeastAtten(ArMaxHalf(ar) - ArMinHalf(ar), ar.halfspan_wanted,
                       ar.running_attens)
       /\ ar.running_offsets =
            StoreSamp(ar.middle_wanted
                        - SampArithShr(StoreSamp(ArMinHalf(ar) + ArMaxHalf(ar),
                                                 ar.signed),
                                       ar.running_attens, ar.signed,
                                       ar.sign_safe),
                      ar.signed)
  /\ \A sign_safe \in BOOLEAN :
       /\ ScenarioBRun(sign_safe).atten_bits = ScenarioB.atten_bits
       /\ ScenarioBRun(sign_safe).offset = ScenarioB.offset
       /\ ScenarioBRun(sign_safe).output = ScenarioB.output

\* A running output taken with samples tracked on both sides of zero and a
\* desired range of positive width, whose half-span needed two or more
\* halvings and whose offset is not zero.
C27_Witness ==
  /\ ar_h.op = "running"
  /\ ar.signed
  /\ ar.halfspan_wanted > 0
  /\ ar.minvals < 0
  /\ ar.maxvals > 0
  /\ ar.running_attens >= 2
  /\ ar.running_offsets # 0


(***************************************************************************)
(* The magnitude computed by the analytic estimator.                       *)
(***************************************************************************)
\* NLOOP_MINVAL(samptype_t) and NLOOP_MAXVAL(samptype_t).
AnSampMin(e) == IF e.signed THEN 0 - (AnSampMod(e) \div 2) ELSE 0

AnSampMax(e) ==
  IF e.signed THEN (AnSampMod(e) \div 2) - 1 ELSE AnSampMod(e) - 1

\* Samples offered to HandleSample: the extremes of the type, zero and the
\* value below it.
AnMagSampleVals(e) ==
  {AnSampMin(e), AnStoreSamp(e, 0 - 1), 0, AnSampMax(e)}

AnMagInit ==
  /\ \E type \in AnTypes(ShiftBits, IdxBits) : an = AnConstruct(type)
  /\ an_h = [op |-> "init", v |-> 0, mag |-> 0]
  /\ ar = Unused
  /\ ar_h = Unused
  /\ iir = Unused
  /\ iir_h = Unused
  /\ fir = Unused
  /\ avg = Unused
  /\ th = Unused
  /\ th_h = Unused
  /\ zs = Unused
  /\ TrigIdleVars
  /\ ScenIdleVars
  /\ BankIdleVars
  /\ ShiftIdleVars
  /\ UtilIdleVars

\* HandleSample(sampval), recording the level-shifted value and its
\* magnitude.
M_HandleSample ==
  /\ \E sampval \in AnMagSampleVals(an) :
       \E v \in {AnShifted(an, sampval)} :
         /\ an' = AnHandleSample(an, sampval)
         /\ an_h' = [op |-> "sample", v |-> v, mag |-> AnMagnitude(an, v)]
  /\ AnOthersUnchanged

\* SetZeroLevel(newzero).
M_SetZeroLevel ==
  /\ \E newzero \in {0, 1} :
       /\ an' = AnSetZeroLevel(an, newzero)
       /\ an_h' = [op |-> "zero", v |-> 0, mag |-> 0]
  /\ AnOthersUnchanged

\* SetMinPeriod(newminperiod).
M_SetMinPeriod ==
  /\ \E newminperiod \in {2, 4} :
       /\ an' = AnSetMinPeriod(an, newminperiod)
       /\ an_h' = [op |-> "period", v |-> 0, mag |-> 0]
  /\ AnOthersUnchanged

AnMagNext ==
  \/ M_HandleSample
  \/ M_SetZeroLevel
  \/ M_SetMinPeriod

SpecAnalyticMag == AnMagInit /\ [][AnMagNext]_vars

\* C28: the magnitude computed from v = sample - zero_level is between 0
\* and MAX(S) for every sample, v = MIN(S) included, and max_mag_seen and
\* last_mag are never negative.
C28_AsStated ==
  /\ an_h.op = "sample" => (an_h.mag >= 0 /\ an_h.mag <= AnSampMax(an))
  /\ an.max_mag_seen >= 0
  /\ an.last_mag >= 0


(***************************************************************************)
(* Falling edges of the de-glitcher.                                       *)
(***************************************************************************)
\* C31: once SetDelays has been called, during a run of false inputs that
\* began with the output high the output stays true up to the f-th input
\* and is false on the (f+1)-th, f being fall_delay; a true input ends the
\* run, so the next run is counted from one again.
C31_DropOutsSuppressed ==
  (dg_h.op = "ProcessSample" /\ dg_h.high_run >= 1) =>
    /\ dg_h.high_run <= dg.fall_delay => dg.last_output
    /\ dg_h.high_run = dg.fall_delay + 1 => ~dg.last_output

\* The output fell on the (f+1)-th false input of a run, f >= 2.
C31_Witness ==
  /\ dg_h.op = "ProcessSample"
  /\ dg_h.configured
  /\ dg.fall_delay >= 2
  /\ dg_h.high_run = dg.fall_delay + 1
  /\ ~dg.last_output


(***************************************************************************)
(* One averager, nloop_Averager_t.  The class has no constructor: the      *)
(* running sum of a new averager is indeterminate, and so are its          *)
(* coefficient and avgbits until they are set.  avg_h records the build,   *)
(* the last operation and, for an update, the running sum before it, the   *)
(* input and the value returned.                                           *)
(***************************************************************************)
MaxAvgBits == 2

\* Coefficients and inputs, as written (signed).
AvCoeffVals == {1, 3, 0 - 1}

AvInputVals == {0, 1, 5, 0 - 2}

AvInit ==
  /\ \E ty \in ZeroBuilds :
       \E s \in SampVals(ty.signed), k \in AvCoeffVals, b \in 0 .. MaxAvgBits :
         /\ avg = [running_sum |-> s, coeff |-> StoreSamp(k, ty.signed),
                   avgbits |-> b]
         /\ avg_h = [ty |-> ty, op |-> "init", before |-> 0, in |-> 0, out |-> 0]
  /\ ar = Unused
  /\ ar_h = Unused
  /\ iir = Unused
  /\ iir_h = Unused
  /\ fir = Unused
  /\ an = Unused
  /\ an_h = Unused
  /\ th = Unused
  /\ th_h = Unused
  /\ zs = Unused
  /\ dg = Unused
  /\ dg_h = Unused
  /\ lut = Unused
  /\ lut_h = Unused
  /\ fm = Unused
  /\ ref = Unused
  /\ fir_h = Unused
  /\ saw = Unused
  /\ TrigIdleVars
  /\ ScenIdleVars
  /\ BankIdleVars
  /\ ShiftIdleVars

AvOthersUnchanged ==
  UNCHANGED <<ar, ar_h, iir, iir_h, fir, an, an_h, th, th_h, zs, dg, dg_h, lut, lut_h, fm, ref, fir_h, saw, trigVars, scenVars, bankVars, shiftVars>>

\* UpdateAverage(indata).
V_UpdateAverage ==
  /\ \E x \in AvInputVals :
       \E indata \in {StoreSamp(x, avg_h.ty.signed)} :
         \E r \in {AvUpdateAverage(avg_h.ty, avg, indata)} :
           /\ avg' = r.avg
           /\ avg_h' = [avg_h EXCEPT !.op = "update",
                                     !.before = avg.running_sum,
                                     !.in = indata, !.out = r.out]
  /\ AvOthersUnchanged

\* SetCoeff(new_coeff).
V_SetCoeff ==
  /\ \E k \in AvCoeffVals :
       avg' = AvSetCoeff(avg, StoreSamp(k, avg_h.ty.signed))
  /\ avg_h' = [avg_h EXCEPT !.op = "configure", !.before = 0, !.in = 0, !.out = 0]
  /\ AvOthersUnchanged

\* SetAvgBits(new_avgbits).
V_SetAvgBits ==
  /\ \E b \in 0 .. MaxAvgBits : avg' = AvSetAvgBits(avg, b)
  /\ avg_h' = [avg_h EXCEPT !.op = "configure", !.before = 0, !.in = 0, !.out = 0]
  /\ AvOthersUnchanged

AvNext ==
  \/ V_UpdateAverage
  \/ V_SetCoeff
  \/ V_SetAvgBits

SpecAverager == AvInit /\ [][AvNext]_vars

\* (v >>s avgbits) * coeff >>s coeffbits, every intermediate stored in
\* samptype_t; >>s is the shift the build selects by signedness.
AvScaledAverage(ty, sum, av) ==
  AvShift(ty, StoreSamp(AvShift(ty, sum, av.avgbits) * av.coeff, ty.signed),
          coeffbits)

\* C32 as stated: the value returned by an update is the scaled average of
\* the running sum before the update.
C32_AsStated ==
  avg_h.op = "update" =>
    avg_h.out = AvScaledAverage(avg_h.ty, avg_h.before, avg)

\* C32: the value returned by an update is the scaled average of the running
\* sum after the update, which is the sum before minus its average plus the
\* input: the output already includes the current input.
C32_OutputFromUpdatedSum ==
  avg_h.op = "update" =>
    /\ avg.running_sum =
         StoreSamp(avg_h.before
                     - AvShift(avg_h.ty, avg_h.before, avg.avgbits)
                     + avg_h.in,
                   avg_h.ty.signed)
    /\ avg_h.out = AvScaledAverage(avg_h.ty, avg.running_sum, avg)

\* An update whose output differs from the scaled average of the sum before.
C32_Witness ==
  /\ avg_h.op = "update"
  /\ avg_h.ty.signed
  /\ avg.avgbits >= 1
  /\ avg_h.out # 0
  /\ avg_h.out # AvScaledAverage(avg_h.ty, avg_h.before, avg)


(***************************************************************************)
(* Disabled cells of the trigger bank.                                     *)
(***************************************************************************)
\* The cells whose trigger ProcessSamples calls.
BankDispatched == {c \in Cells : IsActive(c, banks_active, chans_active) /\ enabled[c]}

\* C33: a ProcessSamples call writes false to the output of every active
\* cell whose enable flag is false and leaves that cell's trigger as it was;
\* the quota falls only by the pulses queued on enabled active cells; and
\* changing an enable flag changes no trigger, so a pulse or cooldown in
\* progress on a disabled cell keeps its remaining count until the cell is
\* enabled again.
C33_DisabledCellFrozen ==
  [][ /\ b_op' = "ProcessSamples" =>
           /\ \A c \in Cells :
                (IsActive(c, banks_active, chans_active) /\ ~enabled[c]) =>
                  /\ trigsout'[c] = FALSE
                  /\ triggers'[c] = triggers[c]
           /\ trigger_count_left' =
                WindowStep(window_time_left, trigger_count_left).count
                  - Cardinality({c \in BankDispatched :
                                   /\ triggers[c].state = NLOOP_TSTATE_IDLE
                                   /\ triggers'[c].state = NLOOP_TSTATE_WAITRISE})
      /\ enabled' # enabled => triggers' = triggers ]_vars

\* A disabled active cell holds a pulse in progress with ticks remaining and
\* its output has been written false.
C33_Witness ==
  \E c \in Cells :
    /\ IsActive(c, banks_active, chans_active)
    /\ ~enabled[c]
    /\ triggers[c].state = NLOOP_TSTATE_WAITFALL
    /\ triggers[c].timeout_left >= 1
    /\ ~trigsout[c]


(***************************************************************************)
(* A queued pulse is committed.                                            *)
(***************************************************************************)
\* Whatever ProcessSample is called with, a trigger in WaitRise stays there
\* or enters WaitFall, enters it exactly when the unwrapped signal (kept in
\* prev_signal) has reached saved_target, and leaves the quota alone.
WaitRiseCommitted(t) ==
  \A thisval \in SigVals, thistarget \in TargetVals, thisperiod \in PeriodVals,
     thisdetectflag \in BOOLEAN, count \in 0 .. MaxCount :
    LET r == TrigProcessSample(t, thisval, thistarget, thisperiod,
                               thisdetectflag, count)
    IN  /\ r.trig.state \in {NLOOP_TSTATE_WAITRISE, NLOOP_TSTATE_WAITFALL}
        /\ (r.trig.state = NLOOP_TSTATE_WAITFALL)
             <=> (r.trig.prev_signal >= t.saved_target)
        /\ r.trig.saved_target = t.saved_target
        /\ r.count = count

\* C34: a trigger in WaitRise leaves it under ProcessSample only for
\* WaitFall, exactly when the unwrapped signal is >= saved_target, whatever
\* the detection flag and the quota; in the bank no call other than
\* ForceIdle changes a trigger in WaitRise except ProcessSamples, and
\* ProcessSamples moves it only to WaitFall, also after the window has
\* expired or DisableTriggering was called.
C34_WaitRiseCommitted ==
  /\ [](\A c \in Cells :
          triggers[c].state = NLOOP_TSTATE_WAITRISE =>
            WaitRiseCommitted(triggers[c]))
  /\ [][ \A c \in Cells :
           (triggers[c].state = NLOOP_TSTATE_WAITRISE /\ b_op' # "ForceIdle") =>
             /\ triggers'[c].state \in
                  {NLOOP_TSTATE_WAITRISE, NLOOP_TSTATE_WAITFALL}
             /\ b_op' # "ProcessSamples" => triggers'[c] = triggers[c]
             /\ (b_op' = "ProcessSamples" /\ c \in BankDispatched) =>
                  ((triggers'[c].state = NLOOP_TSTATE_WAITFALL)
                     <=> (triggers'[c].prev_signal >= triggers[c].saved_target)) ]_vars

\* A pulse starts in a ProcessSamples call made after the window closed, the
\* quota being 0.
C34_Witness ==
  /\ b_op = "ProcessSamples"
  /\ b_left = 0 - 1
  /\ window_time_left = 0
  /\ trigger_count_left = 0
  /\ \E c \in Cells :
       /\ triggers[c].state = NLOOP_TSTATE_WAITFALL
       /\ triggers[c].timeout_left = triggers[c].trig_duration
       /\ trigsout[c]


(***************************************************************************)
(* Phase unwrapping on a sawtooth.  A trigger is queued by one call with   *)
(* the detection flag set, may receive a few other samples while it waits, *)
(* and is then fed the sawtooth 0, 1, ..., P-1, 0, ... of period P,        *)
(* starting at any phase.  saw holds the period, the target, the signal of *)
(* the queueing call, the number of other samples fed, the next sawtooth   *)
(* sample and the number of sawtooth samples fed.  The values stay far     *)
(* below the range of indextype_t.                                         *)
(***************************************************************************)
MaxSawPeriod == 4

SawPeriods == 3 .. MaxSawPeriod

MaxSawOther == 1

SawInit ==
  /\ trig = TrigSetPulseCooldown(TrigSetPulseDuration(TrigResetState, 1), 1)
  /\ trig_count_left = 1
  /\ t_out = FALSE
  /\ t_op = "other"
  /\ t_in = FALSE
  /\ t_prev = [state |-> NLOOP_TSTATE_IDLE, count |-> 0,
              run_true |-> 0, run_false |-> 0, timeout_left |-> 0]
  /\ run_true = 0
  /\ run_false = 0
  /\ pulses_clean = 0
  /\ held = FALSE
  /\ \E P \in SawPeriods :
       \E target \in 0 .. P, queue_val \in 0 .. MaxSawPeriod, phase \in 0 .. (P - 1) :
         saw = [period |-> P, target |-> target, queue_val |-> queue_val,
                phase |-> phase, other |-> 0, n |-> 0]
  /\ dg = Unused
  /\ dg_h = Unused
  /\ lut = Unused
  /\ lut_h = Unused
  /\ fm = Unused
  /\ ref = Unused
  /\ fir_h = Unused
  /\ avg_h = Unused
  /\ ScenIdleVars
  /\ BankIdleVars
  /\ ShiftIdleVars
  /\ DspIdleVars

SawOthersUnchanged ==
  UNCHANGED <<dg, dg_h, lut, lut_h, fm, ref, fir_h, avg_h, scenVars, bankVars, shiftVars, dspVars>>

\* The call that queues the pulse: ProcessSample with the detection flag set
\* on an idle trigger.
W_Queue ==
  /\ trig.state = NLOOP_TSTATE_IDLE
  /\ saw.n = 0
  /\ T_Tick(saw.queue_val, saw.target, saw.period, TRUE)
  /\ UNCHANGED saw
  /\ SawOthersUnchanged

\* A sample that is not of the sawtooth, fed to the waiting trigger before
\* the sawtooth begins.
W_OtherTick ==
  /\ trig.state = NLOOP_TSTATE_WAITRISE
  /\ saw.n = 0
  /\ saw.other < MaxSawOther
  /\ \E thisval \in 0 .. MaxSawPeriod, thisperiod \in {0, saw.period} :
       T_Tick(thisval, saw.target, thisperiod, FALSE)
  /\ saw' = [saw EXCEPT !.other = saw.other + 1]
  /\ SawOthersUnchanged

\* One sawtooth sample fed to the waiting trigger.
W_SawTick ==
  /\ trig.state = NLOOP_TSTATE_WAITRISE
  /\ \E thisdetectflag \in BOOLEAN :
       T_Tick(saw.phase, saw.target, saw.period, thisdetectflag)
  /\ saw' = [saw EXCEPT !.phase = (saw.phase + 1) % saw.period,
                        !.n = saw.n + 1]
  /\ SawOthersUnchanged

SawNext ==
  \/ W_Queue
  \/ W_OtherTick
  \/ W_SawTick

\* ProcessSample is called at every tick.
SpecSawtooth == SawInit /\ [][SawNext]_vars /\ WF_vars(W_Queue \/ W_SawTick)

\* The sawtooth continues the signal of the queueing call.
SawContinues ==
  /\ saw.other = 0
  /\ saw.queue_val < saw.period
  /\ saw.phase = (saw.queue_val + 1) % saw.period

\* C35: a trigger in WaitRise fed a sawtooth 0, 1, ..., P-1 of constant
\* period P >= 3: the unwrapped signal prev_signal never decreases from one
\* sawtooth sample to the next (nor from the queueing sample to the first
\* one, when the sawtooth continues it), and the trigger eventually enters
\* WaitFall.
C35_MonotoneAfterFirstSample ==
  /\ [][ (/\ trig.state = NLOOP_TSTATE_WAITRISE
          /\ saw'.n = saw.n + 1
          /\ (saw.n >= 1 \/ SawContinues))
           => trig'.prev_signal >= trig.prev_signal ]_vars
  /\ (trig.state = NLOOP_TSTATE_WAITRISE) ~> (trig.state = NLOOP_TSTATE_WAITFALL)

\* C35 as stated: from the moment the sawtooth begins, whatever the trigger
\* received before, prev_signal never decreases from tick to tick, and the
\* trigger eventually enters WaitFall.
C35_AsStated ==
  /\ [][ (trig.state = NLOOP_TSTATE_WAITRISE /\ saw'.n = saw.n + 1)
           => trig'.prev_signal >= trig.prev_signal ]_vars
  /\ (trig.state = NLOOP_TSTATE_WAITRISE) ~> (trig.state = NLOOP_TSTATE_WAITFALL)

\* The pulse started after the sawtooth wrapped and was unwrapped by two
\* periods.
C35_Witness ==
  /\ trig.state = NLOOP_TSTATE_WAITFALL
  /\ saw.n > saw.period
  /\ trig.unwrap_offset >= 2 * saw.period
  /\ trig.prev_signal = trig.saved_target

(***************************************************************************)
(* The auto-ranger with chancount channels under all its public            *)
(* operations.  ar holds the per-channel records; ar_h records the last    *)
(* operation with its input and output slices, whether ResetTracking was   *)
(* ever asked for shared attenuation, and whether the scheduled latch has  *)
(* fired since the last LatchAfter, ResetLatched or SetAttenOffset.        *)
(***************************************************************************)
\* Slices offered to UpdateFromSample: channel 0 holds still while channel 1
\* swings.
ArChanSlices(signed) ==
  { [c \in ArChans |-> IF c = 0 THEN NLOOP_MINVAL(signed) + 6 ELSE v] :
      v \in {NLOOP_MINVAL(signed) + 2, NLOOP_MAXVAL(signed)} }

\* The slice offered to the output queries.
ArProbeSlices(signed) ==
  { [c \in ArChans |-> NLOOP_MAXVAL(signed) - c] }

\* Desired ranges offered to SetDesiredRange: a narrow one and one whose
\* ends are swapped.
ArChanRanges(signed) ==
  { <<NLOOP_MINVAL(signed), NLOOP_MINVAL(signed) + 3>>,
    <<NLOOP_MINVAL(signed) + 3, NLOOP_MINVAL(signed)>> }

MaxChanLatch == 1

\* Attenuation and offset slices offered to SetAttenOffset.
ArManualPairs ==
  { [bitshifts |-> [c \in ArChans |-> IF c = 0 THEN 1 ELSE 2],
     offsets |-> [c \in ArChans |-> 1]] }

ArChansInit ==
  /\ \E b \in ArBuilds : ar = ArChansConstruct(b.signed, b.sign_safe)
  /\ ar_h = [op |-> "init", in |-> <<>>, out |-> <<>>,
             asked_tied |-> FALSE, fired |-> FALSE]
  /\ iir = Unused
  /\ iir_h = Unused
  /\ fir = Unused
  /\ avg = Unused
  /\ an = Unused
  /\ an_h = Unused
  /\ th = Unused
  /\ th_h = Unused
  /\ zs = Unused
  /\ TrigIdleVars
  /\ ScenIdleVars
  /\ BankIdleVars
  /\ ShiftIdleVars
  /\ UtilIdleVars

\* UpdateFromSample(data).
AC_UpdateFromSample ==
  /\ \E data \in ArChanSlices(ar[0].signed) :
       \E r \in {ArChansUpdateFromSample(ar, data)} :
         /\ ar' = r
         /\ ar_h' = [ar_h EXCEPT !.op = "update", !.in = data, !.out = <<>>,
                                 !.fired = IF ar[0].countdown_active
                                              /\ ~r[0].countdown_active
                                           THEN TRUE ELSE @]
  /\ ArOthersUnchanged

\* GetRunningOutput(indata, outdata).
AC_GetRunningOutput ==
  /\ \E indata \in ArProbeSlices(ar[0].signed) :
       \E r \in {ArChansCalcOutput(ar, indata, FALSE)} :
         /\ ar' = r.ranger
         /\ ar_h' = [ar_h EXCEPT !.op = "running", !.in = indata,
                                 !.out = r.out]
  /\ ArOthersUnchanged

\* GetLatchedOutput(indata, outdata).
AC_GetLatchedOutput ==
  /\ \E indata \in ArProbeSlices(ar[0].signed) :
       \E r \in {ArChansCalcOutput(ar, indata, TRUE)} :
         /\ ar' = r.ranger
         /\ ar_h' = [ar_h EXCEPT !.op = "latched", !.in = indata,
                                 !.out = r.out]
  /\ ArOthersUnchanged

\* ResetTracking(want_shared_atten).
AC_ResetTracking ==
  /\ \E want_shared_atten \in BOOLEAN :
       /\ ar' = ArChansResetTracking(ar, want_shared_atten)
       /\ ar_h' = [ar_h EXCEPT !.op = "ResetTracking", !.in = <<>>,
                               !.out = <<>>,
                               !.asked_tied = @ \/ want_shared_atten]
  /\ ArOthersUnchanged

\* ResetLatched().
AC_ResetLatched ==
  /\ ar' = ArChansResetLatched(ar)
  /\ ar_h' = [ar_h EXCEPT !.op = "ResetLatched", !.in = <<>>, !.out = <<>>,
                          !.fired = FALSE]
  /\ ArOthersUnchanged

\* LatchAfter(sampcount).
AC_LatchAfter ==
  /\ \E sampcount \in 0 .. MaxChanLatch :
       ar' = ArChansLatchAfter(ar, sampcount)
  /\ ar_h' = [ar_h EXCEPT !.op = "LatchAfter", !.in = <<>>, !.out = <<>>,
                          !.fired = FALSE]
  /\ ArOthersUnchanged

\* SetDesiredRange(newmin, newmax).
AC_SetDesiredRange ==
  /\ \E range \in ArChanRanges(ar[0].signed) :
       ar' = ArChansSetDesiredRange(ar, range[1], range[2])
  /\ ar_h' = [ar_h EXCEPT !.op = "SetDesiredRange", !.in = <<>>, !.out = <<>>]
  /\ ArOthersUnchanged

\* SetAttenOffset(bitshifts, offsets).
AC_SetAttenOffset ==
  /\ \E p \in ArManualPairs :
       ar' = ArChansSetAttenOffset(ar, p.bitshifts, p.offsets)
  /\ ar_h' = [ar_h EXCEPT !.op = "SetAttenOffset", !.in = <<>>, !.out = <<>>,
                          !.fired = FALSE]
  /\ ArOthersUnchanged

\* GetRunningAttenOffset(bitshifts, offsets).
AC_GetRunningAttenOffset ==
  /\ ar' = ArChansGetRunningAttenOffset(ar)
  /\ ar_h' = [ar_h EXCEPT !.op = "GetRunningAttenOffset", !.in = <<>>,
                          !.out = <<>>]
  /\ ArOthersUnchanged

ArChansNext ==
  \/ AC_UpdateFromSample
  \/ AC_GetRunningOutput
  \/ AC_GetLatchedOutput
  \/ AC_ResetTracking
  \/ AC_ResetLatched
  \/ AC_LatchAfter
  \/ AC_SetDesiredRange
  \/ AC_SetAttenOffset
  \/ AC_GetRunningAttenOffset

SpecAutoRangeChans == ArChansInit /\ [][ArChansNext]_vars

AnDetected(e, r) ==
  IF r.since_rise_count # AnCount(e).since_rise_count THEN "rise"
  ELSE IF r.since_fall_count # AnCount(e).since_fall_count THEN "fall"
  ELSE "none"

\* A counter of e is at MAX(I), so that the next increment wraps it.
AnAboutToWrap(e) ==
  \/ e.since_rise_count = AnIdxMax(e)
  \/ e.since_fall_count = AnIdxMax(e)

\* Minimum periods offered to SetMinPeriod.
AnZcPeriods == {0, 2, 4, 6}

AnZcInit ==
  /\ \E type \in AnTypes(ShiftBits, IdxBits) : an = AnConstruct(type)
  /\ an_h = [op |-> "init", zc |-> "none", neg |-> FALSE, last |-> "none",
             prev |-> "none", since |-> 0, wrapped |-> FALSE]
  /\ ar = Unused
  /\ ar_h = Unused
  /\ iir = Unused
  /\ iir_h = Unused
  /\ fir = Unused
  /\ avg = Unused
  /\ th = Unused
  /\ th_h = Unused
  /\ zs = Unused
  /\ TrigIdleVars
  /\ ScenIdleVars
  /\ BankIdleVars
  /\ ShiftIdleVars
  /\ UtilIdleVars

\* HandleSample(sampval).
Z_HandleSample ==
  /\ \E sampval \in AnSampleVals(an) :
       \E r \in {AnHandleSample(an, sampval)} :
         \E kind \in {AnDetected(an, r)} :
           /\ an' = r
           /\ an_h' = [an_h EXCEPT
                         !.op = "sample",
                         !.zc = kind,
                         !.neg = AnIsNegative(an, AnShifted(an, sampval)),
                         !.last = IF kind = "none" THEN @ ELSE kind,
                         !.prev = IF kind = "none" THEN @ ELSE an_h.last,
                         !.since = IF kind # "none" THEN 0
                                   ELSE IF @ < AnIdxMod(an) THEN @ + 1 ELSE @,
                         !.wrapped = @ \/ AnAboutToWrap(an)]
  /\ AnOthersUnchanged

\* SetMinPeriod(newminperiod).
Z_SetMinPeriod ==
  /\ \E newminperiod \in AnZcPeriods :
       an' = AnSetMinPeriod(an, newminperiod)
  /\ an_h' = [an_h EXCEPT !.op = "period", !.zc = "none"]
  /\ AnOthersUnchanged

\* ResetState().
Z_ResetState ==
  /\ an' = AnResetState(an)
  /\ an_h' = [op |-> "reset", zc |-> "none", neg |-> FALSE, last |-> "none",
              prev |-> "none", since |-> 0, wrapped |-> FALSE]
  /\ AnOthersUnchanged

AnZcNext ==
  \/ Z_HandleSample
  \/ Z_SetMinPeriod
  \/ Z_ResetState

SpecAnalyticZc == AnZcInit /\ [][AnZcNext]_vars

\* C37: while no counter has wrapped, two detections that follow one
\* another are of opposite direction, and after a detection the counter it
\* reset is the smaller one, so that the opposite crossing is looked for.
C37_Alternate ==
  ~an_h.wrapped =>
    /\ (an_h.last # "none" /\ an_h.prev # "none") => an_h.last # an_h.prev
    /\ an_h.last = "rise" => an.since_rise_count < an.since_fall_count
    /\ an_h.last = "fall" => an.since_fall_count < an.since_rise_count

\* A rising crossing is detected, the detection before it was a falling one,
\* and the period measured between them is at least 4.
C37_Witness ==
  /\ ~an_h.wrapped
  /\ an_h.op = "sample"
  /\ an_h.zc = "rise"
  /\ an_h.prev = "fall"
  /\ an.last_period >= 4

\* C38: while no counter has wrapped, a HandleSample call that comes fewer
\* than min_zc_gap samples after the last detection detects nothing and
\* leaves last_period and last_mag alone, whatever the sign of its sample;
\* so a detection comes at least min_zc_gap samples after the one before.
C38_GapRespected ==
  [][(an_h'.op = "sample" /\ ~an_h'.wrapped /\ an_h.last # "none") =>
       /\ an_h'.zc # "none" => an_h.since + 1 >= an.min_zc_gap
       /\ an_h.since + 1 < an.min_zc_gap =>
            /\ an_h'.zc = "none"
            /\ an'.last_period = an.last_period
            /\ an'.last_mag = an.last_mag]_vars

\* After a rising crossing, a negative sample arrives inside the gap and is
\* not taken for a falling crossing.
C38_Witness ==
  /\ ~an_h.wrapped
  /\ an_h.op = "sample"
  /\ an_h.last = "rise"
  /\ an_h.zc = "none"
  /\ an_h.neg
  /\ an_h.since >= 1
  /\ an_h.since < an.min_zc_gap

\* C39: once the scheduled latch has fired, IsAutoRangeRunning() is false
\* and UpdateFromSample, GetRunningOutput and GetLatchedOutput leave the
\* latched offsets and attenuations of every channel as they are, until
\* LatchAfter, ResetLatched or SetAttenOffset is called; UpdateFromSample
\* still tracks the minimum and maximum and GetRunningOutput still leaves
\* the running pair computed from them.
C39_OneShot ==
  /\ [](ar_h.fired => \A c \in ArChans : ~ar[c].countdown_active)
  /\ [][(ar_h.fired /\ ar_h'.op \in {"update", "running", "latched"}) =>
          /\ ar_h'.fired
          /\ \A c \in ArChans :
               /\ ar'[c].latched_offsets = ar[c].latched_offsets
               /\ ar'[c].latched_attens = ar[c].latched_attens
               /\ ar_h'.op = "update" =>
                    /\ ar'[c].minvals = ArTrack(ar[c], ar_h'.in[c]).minvals
                    /\ ar'[c].maxvals = ArTrack(ar[c], ar_h'.in[c]).maxvals
               /\ ar_h'.op = "running" =>
                    ar'[c] = ArRecalcAttenOffset(ar[c])]_vars

\* The latch has fired and was not touched since, samples went on arriving,
\* and a running output was computed with an attenuation that is no longer
\* the latched one.
C39_Witness ==
  /\ ar_h.fired
  /\ ar_h.op = "running"
  /\ \E c \in ArChans :
       /\ ar[c].minvals < ar[c].maxvals
       /\ ar[c].running_attens # ar[c].latched_attens

(***************************************************************************)
(* The attenuation search of RecalcAttenOffset, one iteration per step, on *)
(* a one-channel auto-ranger whose tracked limits and desired range are    *)
(* set through UpdateFromSample, ResetTracking and SetDesiredRange.  ar_h  *)
(* holds the position in RecalcAttenOffset (pc) and its local variables.   *)
(***************************************************************************)
\* Samples and range ends offered: the ends of the type, their neighbours
\* and the two values around the middle of the type.
ArLoopVals(signed) ==
  { NLOOP_MINVAL(signed), NLOOP_MINVAL(signed) + 1,
    NLOOP_MINVAL(signed) + (ShiftMod \div 2) - 1,
    NLOOP_MINVAL(signed) + (ShiftMod \div 2),
    NLOOP_MAXVAL(signed) }

ArLoopInit ==
  /\ \E b \in ArBuilds : ar = ArConstruct(b.signed, b.sign_safe)
  /\ ar_h = [pc |-> "idle", thismiddle |-> 0, thishalfspan |-> 0,
             thisatten |-> 0]
  /\ iir = Unused
  /\ iir_h = Unused
  /\ fir = Unused
  /\ avg = Unused
  /\ an = Unused
  /\ an_h = Unused
  /\ th = Unused
  /\ th_h = Unused
  /\ zs = Unused
  /\ TrigIdleVars
  /\ ScenIdleVars
  /\ BankIdleVars
  /\ ShiftIdleVars
  /\ UtilIdleVars

\* UpdateFromSample(data), no countdown running.
RL_UpdateFromSample ==
  /\ ar_h.pc = "idle"
  /\ \E thisval \in ArLoopVals(ar.signed) :
       ar' = ArUpdateFromSample(ar, thisval)
  /\ UNCHANGED ar_h
  /\ ArOthersUnchanged

\* ResetTracking(want_shared_atten).
RL_ResetTracking ==
  /\ ar_h.pc = "idle"
  /\ ar' = ArResetTracking(ar)
  /\ UNCHANGED ar_h
  /\ ArOthersUnchanged

\* SetDesiredRange(newmin, newmax), with any order of the two ends.
RL_SetDesiredRange ==
  /\ ar_h.pc = "idle"
  /\ \E newmin \in ArLoopVals(ar.signed), newmax \in ArLoopVals(ar.signed) :
       ar' = ArSetDesiredRange(ar, newmin, newmax)
  /\ UNCHANGED ar_h
  /\ ArOthersUnchanged

\* RecalcAttenOffset up to the loop: the limits are read, ordered and
\* halved, the middle and the half-span are formed, thisatten = 0.
RL_RecalcEnter ==
  /\ ar_h.pc = "idle"
  /\ ar_h' = [pc |-> "loop",
              thismiddle |-> StoreSamp(ArMinHalf(ar) + ArMaxHalf(ar), ar.signed),
              thishalfspan |-> StoreSamp(ArMaxHalf(ar) - ArMinHalf(ar), ar.signed),
              thisatten |-> 0]
  /\ UNCHANGED ar
  /\ ArOthersUnchanged

\* One iteration: thisatten++; thishalfspan >>= 1.
RL_LoopStep ==
  /\ ar_h.pc = "loop"
  /\ ar_h.thishalfspan > ar.halfspan_wanted
  /\ ar_h' = [ar_h EXCEPT !.thisatten = (@ + 1) % 256,
                          !.thishalfspan = SampShr(@, 1)]
  /\ UNCHANGED ar
  /\ ArOthersUnchanged

\* The loop is left: the attenuation and the offset are stored.
RL_RecalcExit ==
  /\ ar_h.pc = "loop"
  /\ ~(ar_h.thishalfspan > ar.halfspan_wanted)
  /\ ar' = [ar EXCEPT
              !.running_attens = ar_h.thisatten,
              !.running_offsets =
                StoreSamp(ar.middle_wanted
                            - SampArithShr(ar_h.thismiddle, ar_h.thisatten,
                                           ar.signed, ar.sign_safe),
                          ar.signed)]
  /\ ar_h' = [ar_h EXCEPT !.pc = "idle"]
  /\ ArOthersUnchanged

ArLoopNext ==
  \/ RL_UpdateFromSample
  \/ RL_ResetTracking
  \/ RL_SetDesiredRange
  \/ RL_RecalcEnter
  \/ RL_LoopStep
  \/ RL_RecalcExit

SpecAutoRangeLoop ==
  ArLoopInit /\ [][ArLoopNext]_vars /\ WF_vars(RL_LoopStep \/ RL_RecalcExit)

\* C40 as stated: for all tracked limits and desired ranges the loop ends,
\* after at most bit_width(S) - 1 iterations, and neither the half-span of
\* the tracked limits nor the wanted half-span is ever negative.
C40_AsStated ==
  /\ ar.halfspan_wanted >= 0
  /\ ar.running_attens <= ShiftBits - 1
  /\ ar_h.pc = "loop" =>
       /\ ar_h.thishalfspan >= 0
       /\ ar_h.thisatten <= ShiftBits - 1

\* The loop ends, and after at most bit_width(S) - 1 iterations; the wanted
\* half-span is never negative.
ArLoopEnds ==
  /\ [](ar.halfspan_wanted >= 0)
  /\ [](ar.running_attens <= ShiftBits - 1)
  /\ [](ar_h.pc = "loop" => ar_h.thisatten <= ShiftBits - 1)
  /\ (ar_h.pc = "loop") ~> (ar_h.pc = "idle")

\* The half-span of the tracked limits is not negative in a build that
\* shifts natively.
ArLoopSpanFastBuild ==
  (ar_h.pc = "loop" /\ ~ar.sign_safe) => ar_h.thishalfspan >= 0

\* The loop's result is that of ArRecalcAttenOffset.
ArLoopAgrees ==
  [][ar_h.pc = "loop" /\ ar_h'.pc = "idle" => ar' = ArRecalcAttenOffset(ar)]_vars

====
